---- MODULE Spec2Model ----
(***************************************************************************)
(* Session-scoped cart / order state machine of app/business_logic.py.     *)
(*                                                                         *)
(* Python strings are sequences of one-character strings, so that strip,   *)
(* lower and the substring test `a in b` are computed and not assumed.     *)
(* Python's None is the token None (for a str) or NoneList (for a list).   *)
(* Dicts and lists that the code shares by reference (cart items, orders)  *)
(* live in heaps and are referred to by their index.                       *)
(***************************************************************************)
EXTENDS Integers, Sequences, FiniteSets, TLC

\* ------------------------------------------------------------------------
\* Bounds of the model
\* ------------------------------------------------------------------------
\* number of calls that may be started in one behaviour, from the fresh
\* state or from the mid-service state Serving
MaxOps == 1
\* random_order_no draws from 0 .. MaxOrderDraw - 1 (of 0 .. 9999)
MaxOrderDraw == 1
\* orders.json holds up to MaxStored active orders of the caller's phone
MaxStored == 5

\* ------------------------------------------------------------------------
\* Program constants
\* ------------------------------------------------------------------------
MAX_PIZZAS == 5
MAX_ORDERS_PER_PHONE == 5

None == <<"None">>
NoneList == <<None>>

\* ------------------------------------------------------------------------
\* str helpers
\* ------------------------------------------------------------------------
UpperChars == <<"A","B","C","D","E","F","G","H","I","J","K","L","M",
                "N","O","P","Q","R","S","T","U","V","W","X","Y","Z">>
LowerChars == <<"a","b","c","d","e","f","g","h","i","j","k","l","m",
                "n","o","p","q","r","s","t","u","v","w","x","y","z">>
Whitespace == {" ", "\t", "\n"}

LowerChar(c) ==
    IF \E i \in 1..26 : UpperChars[i] = c
    THEN LowerChars[CHOOSE i \in 1..26 : UpperChars[i] = c]
    ELSE c

\* str.lower()
Lower(s) == [i \in 1..Len(s) |-> LowerChar(s[i])]

\* str.strip()
Strip(s) ==
    LET idx == {i \in 1..Len(s) : s[i] \notin Whitespace}
    IN  IF idx = {} THEN <<>>
        ELSE LET lo == CHOOSE i \in idx : \A j \in idx : i <= j
                 hi == CHOOSE i \in idx : \A j \in idx : i >= j
             IN  SubSeq(s, lo, hi)

\* Python `needle in hay` for two str
StrIn(needle, hay) ==
    \E i \in 0..(Len(hay) - Len(needle)) :
        SubSeq(hay, i + 1, i + Len(needle)) = needle

\* truthiness of an optional str: None and "" are falsy
Truthy(s) == s # None /\ s # <<>>

\* _normalize: (s or "").strip().lower()
_normalize(s) == IF Truthy(s) THEN Lower(Strip(s)) ELSE <<>>

\* _ensure_list: None -> [], list -> its non-None elements
_ensure_list(x) ==
    IF x = NoneList THEN <<>>
    ELSE SelectSeq(x, LAMBDA e : e # None)

\* ------------------------------------------------------------------------
\* _match_with_aliases
\* ------------------------------------------------------------------------
\* keys of canonical_map in insertion order (first occurrence of each
\* normalized name)
RECURSIVE CanonicalKeys(_)
CanonicalKeys(canonical_list) ==
    IF canonical_list = <<>> THEN <<>>
    ELSE LET n    == Len(canonical_list)
             init == CanonicalKeys(SubSeq(canonical_list, 1, n - 1))
             k    == Lower(Strip(canonical_list[n]))
         IN  IF \E i \in 1..Len(init) : init[i] = k THEN init
             ELSE Append(init, k)

\* canonical_map[k]: the last display name that normalizes to k
CanonicalValue(canonical_list, k) ==
    LET idx == {i \in 1..Len(canonical_list) :
                    Lower(Strip(canonical_list[i])) = k}
    IN  canonical_list[CHOOSE i \in idx : \A j \in idx : i >= j]

\* canonical_map.get(k, default)
CanonicalGet(canonical_list, k, default) ==
    IF \E i \in 1..Len(canonical_list) : Lower(Strip(canonical_list[i])) = k
    THEN CanonicalValue(canonical_list, k)
    ELSE default

\* does alias entry e = [canonical, variants] fire for value v (step 2)
AliasFires(v, e) ==
    \/ v = Lower(Strip(e.canonical))
    \/ \E a \in e.variants :
          LET an == Lower(Strip(a))
          IN  v = an \/ StrIn(v, an) \/ StrIn(an, v)

_match_with_aliases(value_norm, canonical_list, aliases) ==
    IF ~Truthy(value_norm) THEN None
    ELSE
      LET v    == Lower(Strip(value_norm))
          keys == CanonicalKeys(canonical_list)
          hitA == {i \in 1..Len(aliases) : AliasFires(v, aliases[i])}
          hitC == {i \in 1..Len(keys) : StrIn(v, keys[i]) \/ StrIn(keys[i], v)}
      IN  IF \E i \in 1..Len(keys) : keys[i] = v
          THEN CanonicalValue(canonical_list, v)
          ELSE IF hitA # {}
          THEN LET e == aliases[CHOOSE i \in hitA : \A j \in hitA : i <= j]
               IN  CanonicalGet(canonical_list, Lower(Strip(e.canonical)),
                                e.canonical)
          ELSE IF hitC # {}
          THEN CanonicalValue(canonical_list,
                              keys[CHOOSE i \in hitC : \A j \in hitC : i <= j])
          ELSE None

TOPPING_ALIASES == <<
    [canonical |-> <<"p","a","n","e","e","r">>,
     variants  |-> {<<"p","a","n","e","e","r">>}],
    [canonical |-> <<"o","n","i","o","n">>,
     variants  |-> {<<"o","n","i","o","n">>}],
    [canonical |-> <<"c","a","p","s","i","c","u","m">>,
     variants  |-> {<<"c","a","p","s","i","c","u","m">>, <<"c","a","p","s">>}],
    [canonical |-> <<"m","u","s","h","r","o","o","m","s">>,
     variants  |-> {<<"m","u","s","h","r","o","o","m","s">>,
                    <<"m","u","s","h","r","o","o","m">>}],
    [canonical |-> <<"s","w","e","e","t"," ","c","o","r","n">>,
     variants  |-> {<<"s","w","e","e","t"," ","c","o","r","n">>,
                    <<"c","o","r","n">>}] >>

\* ------------------------------------------------------------------------
\* Menus that settings.get_menu() can return
\* ------------------------------------------------------------------------
Cheezy7 == <<"C","h","e","e","z","y"," ","7">>
Farm    == <<"F","a","r","m">>
Coke    == <<"C","o","k","e">>
Onion   == <<"o","n","i","o","n">>
Capsicum == <<"c","a","p","s","i","c","u","m">>
Small   == <<"S","m","a","l","l">>
Medium  == <<"M","e","d","i","u","m">>
Large   == <<"L","a","r","g","e">>

\* _empty_menu()
_empty_menu ==
    [flavors |-> <<>>, toppings |-> <<>>, addons |-> <<>>, sizes |-> <<>>]

\* a menu as _normalize_remote_menu builds it
ShopMenu ==
    [flavors  |-> <<Cheezy7, Farm>>,
     toppings |-> <<Capsicum, Onion>>,
     addons   |-> <<Coke>>,
     sizes    |-> <<Small, Medium, Large>>]

Menus == {ShopMenu, _empty_menu}

\* another menu the remote end can serve
DayMenu ==
    [flavors  |-> <<Farm>>,
     toppings |-> <<Onion>>,
     addons   |-> <<>>,
     sizes    |-> <<Medium>>]

\* ------------------------------------------------------------------------
\* settings: the menu cache
\* ------------------------------------------------------------------------
MaxTicks == 5
_MENU_CACHE_TTL == 300

\* int(time.time()) when the process starts, and the seconds between two
\* readings of the clock
Epoch == 1000
TickSeconds == 200

\* _cached_menu = None
NoMenu == [none |-> TRUE]

\* the module state of settings.py at import, MENU_API_URL set or not
Imported(url) ==
    [cached_menu |-> NoMenu, cached_menu_ts |-> 0, now |-> Epoch,
     url |-> url, fetched |-> NoMenu]

\* the state get_menu leaves when it has just returned m
JustCached(m) ==
    [cached_menu |-> m, cached_menu_ts |-> Epoch, now |-> Epoch,
     url |-> TRUE, fetched |-> IF m = _empty_menu THEN NoMenu ELSE m]

\* what fetch_remote_menu and _normalize_remote_menu come to: no or an
\* empty response, a response that cannot be normalized, a menu
FetchInputs ==
    { [none |-> TRUE], [raises |-> TRUE],
      [dict |-> ShopMenu], [dict |-> DayMenu] }

\* ------------------------------------------------------------------------
\* Inputs the callers draw from
\* ------------------------------------------------------------------------
\* tasks that can be inside a multi-step operation (checkout, finalize)
Tasks == {"t1", "t2"}
NoTask == "none"
NoLock == "none"

\* call_sid arguments: None (no identifier) and two call identifiers
NoSid == "None"
CallSids == {NoSid, "call-1", "call-2"}
\* the module-level _legacy_* globals
LEGACY == "legacy"
StoreKeys == {LEGACY, "call-1", "call-2"}

\* 0 stands for an omitted / None quantity (`quantity or 1`, `if quantity:`)
NoQty == 0
\* an omitted index of set_size_quantity
NoIndex == -9

WarmRequest ==
    [item |-> <<"C","H","E","E","Z">>, toppings |-> NoneList, size |-> None,
     quantity |-> NoQty]
WarmRequest2 ==
    [item |-> <<" ","f","a","r","m"," ">>, toppings |-> << <<"C","a","p","s">> >>,
     size |-> Large, quantity |-> 2]
AddRequests == {
    WarmRequest,
    WarmRequest2,
    [item |-> <<"C","H","E","E","Z">>, toppings |-> NoneList, size |-> None,
     quantity |-> 3],
    [item |-> <<" ","f","a","r","m"," ">>, toppings |-> NoneList, size |-> None,
     quantity |-> 5],
    [item |-> Coke, toppings |-> NoneList, size |-> None, quantity |-> NoQty],
    [item |-> <<"C","H","E","E","Z">>, toppings |-> << Onion, <<"x","y","z">> >>,
     size |-> None, quantity |-> 2],
    [item |-> <<"C","H","E","E","Z">>, toppings |-> NoneList, size |-> None,
     quantity |-> -1],
    [item |-> <<"C","H","E","E","Z">>, toppings |-> << <<"C","o","r","n">> >>,
     size |-> None, quantity |-> NoQty] }
NoItemInputs == { None, <<>> }

IndexInputs == { -1, 0, 1 }
ModifyRequests == {
    [flavor |-> <<" ","f","a","r","m"," ">>, toppings |-> NoneList, size |-> None,
     quantity |-> NoQty, addons |-> NoneList],
    [flavor |-> None, toppings |-> << <<"C","a","p","s">> >>, size |-> Large,
     quantity |-> 5, addons |-> << Coke >>],
    [flavor |-> Coke, toppings |-> NoneList, size |-> Large,
     quantity |-> 2, addons |-> NoneList],
    [flavor |-> <<" ","f","a","r","m"," ">>, toppings |-> << Onion, <<"x","y","z">> >>,
     size |-> None, quantity |-> NoQty, addons |-> NoneList] }

SsqIndexInputs == { NoIndex, -1, 0, 1 }
WarmAdjust == [size |-> Large, quantity |-> 2]
SsqRequests == {
    WarmAdjust,
    [size |-> None, quantity |-> 5] }

PhoneInputs == { None,
                 <<"+","1"," ","4","1","5","-","5","5","5","-","2","6","7","1">>,
                 <<"a","b","c">> }
AddressInputs == { None }
OrderTypeInputs == { None, <<"P","i","c","k"," ","u","p"," ">>, <<"x">> }

\* ------------------------------------------------------------------------
\* normalize_phone, random_order_no, order types, the order file
\* ------------------------------------------------------------------------
DigitChars == <<"0","1","2","3","4","5","6","7","8","9">>
IsDigit(c) == \E i \in 1..10 : DigitChars[i] = c

\* a normalize_phone that takes any number of digits
normalize_phone_unchecked(p) ==
    IF ~Truthy(p) THEN None ELSE <<"+">> \o SelectSeq(Strip(p), IsDigit)

normalize_phone(p) ==
    IF ~Truthy(p) THEN None
    ELSE LET ps     == Strip(p)
             digits == SelectSeq(ps, IsDigit)
         IN  IF ps # <<>> /\ ps[1] = "+"
             THEN IF 7 <= Len(digits) /\ Len(digits) <= 15
                  THEN <<"+">> \o digits ELSE None
             ELSE IF 7 <= Len(digits) /\ Len(digits) <= 15
                  THEN <<"+">> \o digits ELSE None

\* f"{n:04d}" for the drawn n
random_order_no(n) ==
    << DigitChars[((n \div 1000) % 10) + 1], DigitChars[((n \div 100) % 10) + 1],
       DigitChars[((n \div 10) % 10) + 1],   DigitChars[(n % 10) + 1] >>

OrderNoInputs == { random_order_no(n) : n \in 0..MaxOrderDraw }

Pickup == <<"p","i","c","k","u","p">>
Delivery == <<"d","e","l","i","v","e","r","y">>

VALID_ORDER_TYPES(ot) ==
    IF ot \in { Pickup, <<"p","i","c","k"," ","u","p">>,
                <<"p","i","c","k","-","u","p">>, <<"p">> } THEN Pickup
    ELSE IF ot \in { Delivery, <<"d">> } THEN Delivery
    ELSE None

\* the normalization at the head of save_order_type
NormalizeOrderType(order_type) ==
    IF order_type = None THEN None
    ELSE LET ot == Lower(Strip(order_type))
         IN  IF VALID_ORDER_TYPES(ot) # None THEN VALID_ORDER_TYPES(ot)
             ELSE IF StrIn(<<"p","i","c","k">>, ot) THEN Pickup
             ELSE IF StrIn(<<"d","e","l","i","v">>, ot) THEN Delivery
             ELSE None

\* orders.json as count_active_orders_for_phone reads it: n active orders of
\* the phone, one of its orders that is ready, one order of another phone
OtherPhone == <<"+","9","9","9","9","9","9","9">>
OrdersFile(phone, n) ==
    [i \in 1..n |-> [phone |-> phone, status |-> "received"]]
    \o << [phone |-> phone, status |-> "ready"],
          [phone |-> OtherPhone, status |-> "received"] >>

count_active_orders_for_phone(data, phone_e164) ==
    IF ~Truthy(phone_e164) THEN 0
    ELSE Cardinality({i \in 1..Len(data) :
                         data[i].phone = phone_e164 /\ data[i].status # "ready"})

\* address.strip() or None
NormAddress(address) ==
    IF address = None THEN None
    ELSE IF Strip(address) = <<>> THEN None ELSE Strip(address)

\* ------------------------------------------------------------------------
\* State
\* ------------------------------------------------------------------------
VARIABLES
    settings,   \* the menu cache of settings.py, the clock, the last good fetch
    menu,       \* what settings.get_menu() returns
    known,      \* call_sids that have entries in _call_locks, _CALL_CARTS, ...
    lock,       \* holder of each session's asyncio.Lock, or NoTask
    cart,       \* per store: list of references to item dicts
    heap,       \* the item dicts; a reference is an index
    pending,    \* per store: PENDING_ORDERS, order_number -> order reference
    orders,     \* per store: ORDERS, order_number -> order reference
    orderHeap,  \* the order dicts
    orderType,  \* per store: the "value" of the order-type store, or None
    nops,       \* operations started so far
    loc,        \* per task: position and locals of its checkout / finalize
    held,       \* the store whose lock the most recent step held, or NoLock
    last        \* the most recent step: its operation and result

vars == <<settings, menu, known, lock, cart, heap, pending, orders, orderHeap,
          orderType, nops, loc, held, last>>

NoRet == [none |-> TRUE]
EmptyMap == [k \in {} |-> 0]

MapPut(m, k, v) == [x \in (DOMAIN m) \cup {k} |-> IF x = k THEN v ELSE m[x]]
\* a pop that leaves the key in place
MapKeep(m, k) == m

\* dict.pop(k)
MapPop(m, k) == [x \in (DOMAIN m) \ {k} |-> m[x]]

Ok(r) == "ok" \in DOMAIN r /\ r.ok

\* a _get_store that hands every call identifier the same store
_get_store_shared(call_sid) == IF call_sid = NoSid THEN LEGACY ELSE "call-1"

\* a _get_store that hands every call the legacy store
_get_store_legacy(call_sid) == LEGACY

\* _get_store: which store a call_sid selects
_get_store(call_sid) == IF call_sid = NoSid THEN LEGACY ELSE call_sid

\* the entries _get_store creates for a call_sid it has not seen
Created(call_sid) == known \cup ({_get_store(call_sid)} \ {LEGACY})

\* item dicts behind a list of references
Deref(h, refs) == [i \in 1..Len(refs) |-> h[refs[i]]]

\* the cart as a reader sees it
CartView(s) == Deref(heap, cart[s])

\* quantity of an item dict: it.get("quantity") or 1
ItemQty(it) == IF it.quantity # NoQty THEN it.quantity ELSE 1

RECURSIVE SumQty(_)
SumQty(items) ==
    IF items = <<>> THEN 0 ELSE ItemQty(Head(items)) + SumQty(Tail(items))

\* total pizza quantity of a session's cart
CartQuantity(s) == SumQty(CartView(s))

IdleLoc == [pc |-> "idle", sid |-> "-", call_sid |-> NoSid, op |-> "none",
            order_type_value |-> None, order_no |-> None,
            co_order |-> 0, fin_order |-> 0, quiet |-> TRUE, before |-> <<>>,
            active_orders |-> 0]

\* the inputs of the dispatcher call a return belongs to: none
NoCall == <<"none", [none |-> TRUE], "None">>

\* op, ret: the most recent step's operation and, once it has returned, its
\* result; snap_of: the call_sid a returned get_cart snapshot was taken with
NoLast == [op |-> "none", snap_of |-> NoSid, done |-> FALSE, ret |-> NoRet,
           mutated |-> FALSE, call |-> NoCall]

\* the toppings loop: normalized, blank ones skipped, each matched
ToppingsIn(toppings) ==
    LET l == _ensure_list(toppings)
        n == [i \in 1..Len(l) |-> _normalize(l[i])]
    IN  SelectSeq(n, LAMBDA x : x # <<>>)

\* the normalized toppings that the requests carry, and what each resolves
\* to under each menu, computed once
ToppingInputs ==
    UNION ({ {ToppingsIn(r.toppings)[i] : i \in 1..Len(ToppingsIn(r.toppings))} :
                r \in AddRequests }
           \cup
           { {ToppingsIn(r.toppings)[i] : i \in 1..Len(ToppingsIn(r.toppings))} :
                r \in ModifyRequests })

ToppingTable ==
    [m \in Menus |->
        [x \in ToppingInputs |->
            _match_with_aliases(x, m.toppings, TOPPING_ALIASES)]]

ToppingMatch(x, m) ==
    IF m \in Menus /\ x \in ToppingInputs THEN ToppingTable[m][x]
    ELSE _match_with_aliases(x, m.toppings, TOPPING_ALIASES)

\* a toppings loop that rejects nothing
NoBadTopping(toppings, m) == 0

\* index of the first topping that does not resolve, 0 if all resolve
FirstBadTopping(toppings, m) ==
    LET tin == ToppingsIn(toppings)
        bad == {i \in 1..Len(tin) : ~Truthy(ToppingMatch(tin[i], m))}
    IN  IF bad = {} THEN 0 ELSE CHOOSE i \in bad : \A j \in bad : i <= j

ToppingsOut(toppings, m) ==
    LET tin == ToppingsIn(toppings)
    IN  [i \in 1..Len(tin) |-> ToppingMatch(tin[i], m)]

\* the flavor lookup of add_to_cart and modify_cart_item; what the names of
\* the requests resolve to under each menu is computed once
FlavorInputs ==
    {r.item : r \in AddRequests} \cup {r.flavor : r \in ModifyRequests}

FlavorTable ==
    [m \in Menus |->
        [x \in FlavorInputs |->
            _match_with_aliases(_normalize(x), m.flavors, <<>>)]]

FlavorMatch(name, m) ==
    IF m \in Menus /\ name \in FlavorInputs THEN FlavorTable[m][name]
    ELSE _match_with_aliases(_normalize(name), m.flavors, <<>>)

\* default size: the menu's first listed size
DefaultSize(m) == IF m.sizes # <<>> THEN m.sizes[1] ELSE None

\* the item dict add_to_cart builds for a request that resolves
ItemObj(r, m) ==
    [item |-> FlavorMatch(r.item, m),
     toppings |-> ToppingsOut(r.toppings, m),
     size |-> IF Truthy(r.size) THEN r.size ELSE DefaultSize(m),
     customer_name |-> None,
     address |-> None,
     quantity |-> NoQty]

\* a clear that leaves the list as it is
ListKeep(l) == l

\* list.clear()
ListClear(l) == <<>>

\* a copy that loses the last entry
ListCopyShort(l) == SubSeq(l, 1, Len(l) - 1)

\* list.copy(): a new list that holds the same references
ListCopy(l) == [i \in 1..Len(l) |-> l[i]]

\* an order dict that records no order type
NewOrderUntyped(order_no, items, phone_norm, address, order_type_value) ==
    [order_number |-> order_no, items |-> items, phone |-> phone_norm,
     status |-> "received", created_at |-> "stamped", committed |-> FALSE,
     address |-> address, order_type |-> None,
     saved_at |-> "absent", total |-> "absent"]

\* the order dict checkout_order builds
NewOrder(order_no, items, phone_norm, address, order_type_value) ==
    [order_number |-> order_no, items |-> items, phone |-> phone_norm,
     status |-> "received", created_at |-> "stamped", committed |-> FALSE,
     address |-> address, order_type |-> order_type_value,
     saved_at |-> "absent", total |-> "absent"]

\* a finalize_order that does not mark the order committed
CommittedUnmarked(order, CART, stamped) ==
    [order EXCEPT !.items = IF CART # <<>> THEN CART ELSE @,
                  !.saved_at = IF stamped THEN "stamped" ELSE "None",
                  !.total = "None"]

\* a finalize that keeps the items checkout stored
CommittedStale(order, CART, stamped) ==
    [order EXCEPT !.committed = TRUE,
                  !.saved_at = IF stamped THEN "stamped"
                               ELSE IF @ = "absent" THEN "None" ELSE @,
                  !.total = IF @ = "absent" THEN "None" ELSE @]

\* the order dict as finalize_order leaves it
Committed(order, CART, stamped) ==
    [order EXCEPT !.items = IF CART # <<>> THEN ListCopy(CART) ELSE @,
                  !.committed = TRUE,
                  !.saved_at = IF stamped THEN "stamped"
                               ELSE IF @ = "absent" THEN "None" ELSE @,
                  !.total = IF @ = "absent" THEN "None" ELSE @]

\* `if size: item["size"] = size` and `if quantity: item["quantity"] = quantity`
WithSizeQuantity(it, size, quantity) ==
    [it EXCEPT !.size = IF Truthy(size) THEN size ELSE @,
               !.quantity = IF quantity # NoQty THEN quantity ELSE @]

\* the state of a process that has served no call yet
Fresh ==
    /\ menu \in Menus
    /\ known = {}
    /\ cart = [s \in StoreKeys |-> <<>>]
    /\ heap = <<>>
    /\ orders = [s \in StoreKeys |-> EmptyMap]
    /\ orderHeap = <<>>
    /\ orderType = [s \in StoreKeys |-> None]

\* the state of a process in mid-service, as these calls leave it:
\*   add_to_cart("CHEEZ", call_sid="call-2"),
\*   checkout_order(order_type="Pick up ", call_sid="call-2") drawing 0000,
\*   add_to_cart("CHEEZ", call_sid="call-2"),
\*   save_order_type("Pick up ", call_sid="call-2"),
\*   add_to_cart(" farm ", ["Caps"], "Large", 2, call_sid="call-1"),
\*   set_size_quantity(None, "Large", 2, call_sid="call-1")
Serving ==
    LET it == ItemObj(WarmRequest, ShopMenu)
        it2 == ItemObj(WarmRequest2, ShopMenu)
        o  == Committed(NewOrder(random_order_no(0), <<1>>, None, None, Pickup),
                        <<1>>, TRUE)
    IN  /\ menu = ShopMenu
        /\ known = {"call-1", "call-2"}
        /\ heap = <<it, it, it2,
                    WithSizeQuantity(it2, WarmAdjust.size, WarmAdjust.quantity)>>
        /\ cart = [s \in StoreKeys |->
                      IF s = "call-2" THEN <<2>>
                      ELSE IF s = "call-1" THEN <<3, 4>> ELSE <<>>]
        /\ orderHeap = <<o>>
        /\ orders = [s \in StoreKeys |->
                        IF s = "call-2" THEN MapPut(EmptyMap, random_order_no(0), 1)
                        ELSE EmptyMap]
        /\ orderType = [s \in StoreKeys |->
                           IF s = "call-2" THEN Pickup ELSE None]

\* no call is in progress
AtRest ==
    /\ pending = [s \in StoreKeys |-> EmptyMap]
    /\ loc = [t \in Tasks |-> IdleLoc]
    /\ held = NoLock
    /\ last = NoLast

\* the state of a process with a call in progress, as these calls leave it:
\*   add_to_cart("CHEEZ"),
\*   save_order_type(None, "Pick up "),
\*   add_to_cart("CHEEZ", call_sid="call-1"),
\*   checkout_order(call_sid="call-1") drawing 0000, at its
\*   `await finalize_order(...)`
Paying ==
    LET it == ItemObj(WarmRequest, ShopMenu)
        p  == NewOrder(random_order_no(0), ListCopy(<<2>>), None,
                       NormAddress(None), None)
    IN  /\ menu = ShopMenu
        /\ known = {"call-1"}
        /\ heap = <<it, it>>
        /\ cart = [s \in StoreKeys |->
                      IF s = LEGACY THEN <<1>>
                      ELSE IF s = "call-1" THEN <<2>> ELSE <<>>]
        /\ orderHeap = <<p>>
        /\ orders = [s \in StoreKeys |-> EmptyMap]
        /\ orderType = [s \in StoreKeys |->
                           IF s = LEGACY THEN Pickup ELSE None]
        /\ pending = [s \in StoreKeys |->
                         IF s = "call-1" THEN MapPut(EmptyMap, random_order_no(0), 1)
                         ELSE EmptyMap]
        /\ loc = [t \in Tasks |->
                     IF t = "t1"
                     THEN [IdleLoc EXCEPT !.pc = "fin_lock", !.sid = "call-1",
                                          !.call_sid = "call-1",
                                          !.op = "checkout_order",
                                          !.order_no = random_order_no(0),
                                          !.co_order = 1,
                                          !.before = <<it>>]
                     ELSE IdleLoc]
        /\ held = "call-1"
        /\ last = [NoLast EXCEPT !.op = "checkout_order"]

Init ==
    /\ (Fresh /\ AtRest) \/ (Serving /\ AtRest) \/ Paying
    /\ lock = [s \in StoreKeys |-> NoTask]
    /\ nops = 0
    /\ settings = JustCached(menu)

\* ------------------------------------------------------------------------
\* `async with lock`: a critical section holds no await, so it runs from
\* acquire to release in one step
\* ------------------------------------------------------------------------
\* a further call fits the bounds of the model
Budget ==
    /\ nops < MaxOps
    /\ nops' = nops + 1

\* asyncio.Lock.acquire succeeds on a free lock; the step then runs the
\* `async with` block holding it
Acquire(s) == lock[s] = NoTask /\ held' = s

\* a step that takes no lock
Unlocked == held' = NoLock

\* an `async with` block that is left with the lock still taken
Retain(s) == lock' = [lock EXCEPT ![s] = "t1"]

\* leaving the `async with` block
Release(s) == lock' = [lock EXCEPT ![s] = NoTask]

\* an operation on store s ran while a checkout of another task was between
\* its own steps on s
Disturb(s) ==
    [u \in Tasks |-> IF loc[u].sid = s THEN [loc[u] EXCEPT !.quiet = FALSE]
                     ELSE loc[u]]

\* a call that is one critical section of store _get_store(call_sid)
Section(call_sid) ==
    /\ Budget
    /\ Acquire(_get_store(call_sid))
    /\ known' = Created(call_sid)
    /\ Release(_get_store(call_sid))
    /\ loc' = Disturb(_get_store(call_sid))

\* the return of operation o, reached through the dispatcher call x if any
ReturnedTo(o, x, call_sid, r) ==
    last' = [op |-> o, snap_of |-> IF o = "get_cart" THEN call_sid ELSE NoSid,
             done |-> TRUE, ret |-> r, mutated |-> FALSE, call |-> x]

Returned(o, call_sid, r) == ReturnedTo(o, NoCall, call_sid, r)

\* ------------------------------------------------------------------------
\* add_to_cart
\* ------------------------------------------------------------------------
\* `if not item: return` precedes _get_store and the lock
AddNoItem(call_sid, item) ==
    /\ Budget
    /\ ~Truthy(item)
    /\ Unlocked
    /\ Returned("add_to_cart", call_sid,
                [ok |-> FALSE, error |-> "No item specified."])
    /\ UNCHANGED <<settings, menu, known, lock, cart, heap, pending, orders, orderHeap,
                   orderType, loc>>

\* a capacity check that looks at the cart alone, not at what is asked for
AddOverLimitFull(CART, q) == Len(CART) >= MAX_PIZZAS

\* the capacity check of add_to_cart
AddOverLimit(CART, q) == Len(CART) + q > MAX_PIZZAS

\* an add_to_cart that appends one dict whatever the quantity
AddedOne(item_obj, q) == <<item_obj>>

\* what add_to_cart appends: one new dict per requested pizza
AddedItems(item_obj, q) == [i \in 1..q |-> item_obj]

AddToCart(call_sid, r) ==
    /\ Section(call_sid)
    /\ Truthy(r.item)
    /\  LET s    == _get_store(call_sid)
            CART == cart[s]
            q    == IF r.quantity # NoQty THEN r.quantity ELSE 1
            canonical_flavor == FlavorMatch(r.item, menu)
            bad  == FirstBadTopping(r.toppings, menu)
            item_obj == ItemObj(r, menu)
            new  == AddedItems(item_obj, q)
        IN  IF AddOverLimit(CART, q)
            THEN /\ Returned("add_to_cart", call_sid,
                             [ok |-> FALSE, error |-> "Max 5 pizzas per order."])
                 /\ UNCHANGED <<cart, heap>>
            ELSE IF ~Truthy(canonical_flavor)
            THEN /\ Returned("add_to_cart", call_sid,
                             [ok |-> FALSE, error |-> "is not on the menu.",
                              what |-> r.item])
                 /\ UNCHANGED <<cart, heap>>
            ELSE IF bad # 0
            THEN /\ Returned("add_to_cart", call_sid,
                             [ok |-> FALSE, error |-> "Topping not available.",
                              what |-> ToppingsIn(r.toppings)[bad]])
                 /\ UNCHANGED <<cart, heap>>
            ELSE IF q < 1
            THEN \* range(quantity) is empty: item_obj is unbound at the return
                 /\ Returned("add_to_cart", call_sid,
                             [raised |-> "UnboundLocalError"])
                 /\ UNCHANGED <<cart, heap>>
            ELSE /\ heap' = heap \o new
                 /\ cart' = [cart EXCEPT ![s] =
                                CART \o [i \in 1..Len(new) |-> Len(heap) + i]]
                 /\ Returned("add_to_cart", call_sid,
                             [ok |-> TRUE, cart_count |-> Len(CART) + Len(new),
                              item |-> Len(heap) + Len(new)])
    /\ UNCHANGED <<settings, menu, pending, orders, orderHeap, orderType>>

\* ------------------------------------------------------------------------
\* remove_from_cart
\* ------------------------------------------------------------------------
\* 0 <= index < len(CART)
IndexInRange(index, CART) == 0 <= index /\ index < Len(CART)

\* a pop that takes the last entry whatever the index
ListPopLast(l, index) == SubSeq(l, 1, Len(l) - 1)

\* list.pop(index) for a 0-based index
ListPop(l, index) == SubSeq(l, 1, index) \o SubSeq(l, index + 2, Len(l))

RemoveFromCart(call_sid, index) ==
    /\ Section(call_sid)
    /\  LET s == _get_store(call_sid)
            CART == cart[s]
        IN  IF ~IndexInRange(index, CART)
            THEN /\ Returned("remove_from_cart", call_sid,
                             [ok |-> FALSE, error |-> "Index out of range.",
                              cart_count |-> Len(CART)])
                 /\ UNCHANGED cart
            ELSE /\ cart' = [cart EXCEPT ![s] = ListPop(CART, index)]
                 /\ Returned("remove_from_cart", call_sid,
                             [ok |-> TRUE, removed |-> CART[index + 1],
                              cart_count |-> Len(CART) - 1])
    /\ UNCHANGED <<settings, menu, heap, pending, orders, orderHeap, orderType>>

\* ------------------------------------------------------------------------
\* modify_cart_item
\* ------------------------------------------------------------------------
\* the item dict after the flavor assignment
WithFlavor(it, flavor, m) ==
    IF Truthy(flavor) THEN [it EXCEPT !.item = FlavorMatch(flavor, m)] ELSE it

\* the item dict after the toppings assignment
WithToppings(it, toppings, m) ==
    IF toppings # NoneList THEN [it EXCEPT !.toppings = ToppingsOut(toppings, m)]
    ELSE it

\* the body of modify_cart_item, returning under the operation name o of
\* the dispatcher call x, if any
ModifyCartItemVia(o, x, call_sid, index, r) ==
    /\ Section(call_sid)
    /\  LET s    == _get_store(call_sid)
            CART == cart[s]
        IN  IF ~IndexInRange(index, CART)
            THEN /\ ReturnedTo(o, x, call_sid,
                             [ok |-> FALSE, error |-> "Index out of range.",
                              cart_count |-> Len(CART)])
                 /\ UNCHANGED heap
            ELSE
              LET ref == CART[index + 1]
                  it1 == WithFlavor(heap[ref], r.flavor, menu)
                  it2 == WithToppings(it1, r.toppings, menu)
                  it3 == WithSizeQuantity(it2, r.size, r.quantity)
              IN  IF Truthy(r.flavor) /\ ~Truthy(FlavorMatch(r.flavor, menu))
                  THEN /\ ReturnedTo(o, x, call_sid,
                                   [ok |-> FALSE, error |-> "is not on the menu.",
                                    what |-> r.flavor])
                       /\ UNCHANGED heap
                  ELSE IF r.toppings # NoneList
                          /\ FirstBadTopping(r.toppings, menu) # 0
                  THEN \* item["item"] was already assigned
                       /\ heap' = [heap EXCEPT ![ref] = it1]
                       /\ ReturnedTo(o, x, call_sid,
                                   [ok |-> FALSE, error |-> "Topping not available.",
                                    what |-> ToppingsIn(r.toppings)
                                               [FirstBadTopping(r.toppings, menu)]])
                  ELSE /\ heap' = [heap EXCEPT ![ref] = it3]
                       /\ ReturnedTo(o, x, call_sid,
                                   [ok |-> TRUE, item |-> ref,
                                    cart_count |-> Len(CART)])
    /\ UNCHANGED <<settings, menu, cart, pending, orders, orderHeap, orderType>>

\* modify_cart_item called directly
ModifyCartItem(call_sid, index, r) ==
    ModifyCartItemVia("modify_cart_item", NoCall, call_sid, index, r)

\* ------------------------------------------------------------------------
\* set_size_quantity
\* ------------------------------------------------------------------------
\* `index or len(CART) - 1`: index 0 taken for an omitted one
SsqIndexOr(index, CART) ==
    IF index # NoIndex /\ index # 0 THEN index ELSE Len(CART) - 1

\* index if index is not None else len(CART) - 1
SsqIndex(index, CART) == IF index # NoIndex THEN index ELSE Len(CART) - 1

SetSizeQuantity(call_sid, index, r) ==
    /\ Section(call_sid)
    /\  LET s    == _get_store(call_sid)
            CART == cart[s]
            i    == SsqIndex(index, CART)
        IN  IF CART = <<>>
            THEN /\ Returned("set_size_quantity", call_sid,
                             [ok |-> FALSE, error |-> "Cart is empty."])
                 /\ UNCHANGED heap
            ELSE IF ~IndexInRange(i, CART)
            THEN /\ Returned("set_size_quantity", call_sid,
                             [ok |-> FALSE, error |-> "Index out of range."])
                 /\ UNCHANGED heap
            ELSE /\ heap' = [heap EXCEPT ![CART[i + 1]] =
                                WithSizeQuantity(@, r.size, r.quantity)]
                 /\ Returned("set_size_quantity", call_sid,
                             [ok |-> TRUE, item |-> CART[i + 1]])
    /\ UNCHANGED <<settings, menu, cart, pending, orders, orderHeap, orderType>>

\* ------------------------------------------------------------------------
\* get_cart and what its caller can do with the result
\* ------------------------------------------------------------------------
GetCart(call_sid) ==
    /\ Section(call_sid)
    /\ Returned("get_cart", call_sid,
                [ok |-> TRUE, items |-> ListCopy(cart[_get_store(call_sid)]),
                 count |-> Len(cart[_get_store(call_sid)])])
    /\ UNCHANGED <<settings, menu, cart, heap, pending, orders, orderHeap, orderType>>

HoldsSnapshot == last.op = "get_cart" /\ last.done /\ ~last.mutated

\* the caller removes the last entry of the returned list, or appends to it
SnapshotListMutate ==
    /\ HoldsSnapshot
    /\ \/ /\ last.ret.items # <<>>
          /\ last' = [last EXCEPT !.mutated = TRUE,
                        !.ret.items = SubSeq(@, 1, Len(@) - 1)]
       \/ /\ last.ret.items # <<>>
          /\ last' = [last EXCEPT !.mutated = TRUE,
                        !.ret.items = Append(@, @[1])]
    /\ Unlocked
    /\ UNCHANGED <<settings, menu, known, lock, cart, heap, pending, orders, orderHeap,
                   orderType, nops, loc>>

\* the caller assigns a field of an item dict contained in the returned list
SnapshotItemMutate ==
    /\ HoldsSnapshot
    /\ \E i \in 1..Len(last.ret.items) :
          heap' = [heap EXCEPT ![last.ret.items[i]].size = <<"X">>]
    /\ last' = [last EXCEPT !.mutated = TRUE]
    /\ Unlocked
    /\ UNCHANGED <<settings, menu, known, lock, cart, pending, orders, orderHeap,
                   orderType, nops, loc>>

\* ------------------------------------------------------------------------
\* save_order_type, get_order_type
\* ------------------------------------------------------------------------
SaveOrderType(call_sid, order_type) ==
      LET v == NormalizeOrderType(order_type)
      IN  IF v = None
          THEN \* returns None before _get_store and the lock
               /\ Budget
               /\ Unlocked
               /\ Returned("save_order_type", call_sid, [value |-> None])
               /\ UNCHANGED <<settings, menu, known, lock, cart, heap, pending, orders,
                              orderHeap, orderType, loc>>
          ELSE /\ Section(call_sid)
               /\ orderType' = [orderType EXCEPT ![_get_store(call_sid)] = v]
               /\ Returned("save_order_type", call_sid, [value |-> v])
               /\ UNCHANGED <<settings, menu, cart, heap, pending, orders, orderHeap>>

GetOrderType(call_sid) ==
    /\ Section(call_sid)
    /\ Returned("get_order_type", call_sid,
                [value |-> orderType[_get_store(call_sid)]])
    /\ UNCHANGED <<settings, menu, cart, heap, pending, orders, orderHeap, orderType>>

\* ------------------------------------------------------------------------
\* checkout_order
\* ------------------------------------------------------------------------
InProgress(o, call_sid) ==
    last' = [op |-> o, snap_of |-> NoSid, done |-> FALSE, ret |-> NoRet,
             mutated |-> FALSE, call |-> NoCall]

\* the task that runs the next multi-step call: the first idle one
Idle(t) ==
    /\ loc[t].pc = "idle"
    /\ t = "t2" => loc["t1"].pc # "idle"

\* the call, up to the return of `await save_order_type(...)`
CheckoutStart(t, call_sid, order_type) ==
    /\ Idle(t)
    /\ Budget
    /\ known' = Created(call_sid)
    /\  LET s == _get_store(call_sid)
            v == NormalizeOrderType(order_type)
        IN  /\ IF v # None
               THEN /\ Acquire(s)
                    /\ orderType' = [orderType EXCEPT ![s] = v]
                    /\ Release(s)
               ELSE Unlocked /\ UNCHANGED <<orderType, lock>>
            /\ loc' = [Disturb(s) EXCEPT ![t] =
                          [IdleLoc EXCEPT !.pc = "co_lock", !.sid = s,
                                          !.call_sid = call_sid,
                                          !.op = "checkout_order",
                                          !.order_type_value = v,
                                          !.before = CartView(s)]]
            /\ InProgress("checkout_order", call_sid)
    /\ UNCHANGED <<settings, menu, cart, heap, pending, orders, orderHeap>>

\* a checkout that never takes the cart for empty
CartNeverEmpty(CART) == FALSE

\* `if not CART`
CartEmpty(CART) == CART = <<>>

\* the per-phone limit check
LimitReached(active_orders, CART) ==
    active_orders + Len(CART) > MAX_ORDERS_PER_PHONE

\* checkout_order's `async with lock` block
CheckoutLocked(t, phone, address, stored, n) ==
    /\ loc[t].pc = "co_lock"
    /\ Acquire(loc[t].sid)
    /\ Release(loc[t].sid)
    /\ LET s    == loc[t].sid
           cs   == loc[t].call_sid
           CART == cart[s]
       IN  IF CartEmpty(CART)
           THEN /\ Returned("checkout_order", cs,
                            [ok |-> FALSE, error |-> "Cart is empty."])
                /\ loc' = [Disturb(s) EXCEPT ![t] = IdleLoc]
                /\ UNCHANGED <<pending, orderHeap>>
           ELSE LET phone_norm == normalize_phone(phone)
                    active_orders ==
                        count_active_orders_for_phone(
                            OrdersFile(phone_norm, stored), phone_norm)
                IN  IF Truthy(phone_norm) /\ LimitReached(active_orders, CART)
                       THEN /\ Returned("checkout_order", cs,
                                        [ok |-> FALSE, error |-> "limit",
                                         limit_reached |-> TRUE,
                                         active_orders |-> active_orders,
                                         cart_pizzas |-> Len(CART),
                                         max_allowed |-> MAX_ORDERS_PER_PHONE])
                            /\ loc' = [Disturb(s) EXCEPT ![t] = IdleLoc]
                            /\ UNCHANGED <<pending, orderHeap>>
                       ELSE LET order_no == random_order_no(n)
                            IN  /\ orderHeap' = Append(orderHeap,
                                       NewOrder(order_no, ListCopy(CART),
                                                phone_norm, NormAddress(address),
                                                loc[t].order_type_value))
                                /\ pending' = [pending EXCEPT ![s] =
                                       MapPut(@, order_no, Len(orderHeap) + 1)]
                                /\ loc' = [Disturb(s) EXCEPT ![t] =
                                       [loc[t] EXCEPT !.pc = "fin_lock",
                                                      !.order_no = order_no,
                                                      !.co_order = Len(orderHeap) + 1,
                                                      !.active_orders =
                                                          IF Truthy(phone_norm)
                                                          THEN active_orders
                                                          ELSE 0]]
                                /\ InProgress("checkout_order", cs)
    /\ UNCHANGED <<settings, menu, known, cart, heap, orders, orderType, nops>>

\* ------------------------------------------------------------------------
\* finalize_order
\* ------------------------------------------------------------------------
\* what the caller of task t's operation gets: checkout_order returns
\* {"ok": True, **order} of its own order dict, whatever finalize returned
OpResult(t, o, fin_result, oh) ==
    IF o = "checkout_order"
    THEN [ok |-> TRUE, order |-> oh[loc[t].co_order]]
    ELSE fin_result

\* _CALL_ORDER_TYPES.pop(call_sid, None), only `if call_sid`
PopOrderType(call_sid) ==
    IF call_sid # NoSid THEN [orderType EXCEPT ![_get_store(call_sid)] = None]
    ELSE orderType

\* finalize_order's `async with lock` block and, when the import of the
\* persistence function fails, the rest of the function
FinalizeSection(t, s, call_sid, o, order_number, import_ok) ==
    /\ Acquire(s)
    /\ Release(s)
    /\ IF order_number \notin DOMAIN pending[s]
       THEN /\ Returned(o, call_sid,
                        OpResult(t, o, [ok |-> FALSE,
                                        error |-> "Pending order not found."],
                                 orderHeap))
            /\ loc' = [Disturb(s) EXCEPT ![t] = IdleLoc]
            /\ UNCHANGED <<cart, pending, orders, orderHeap, orderType>>
       ELSE LET ref == pending[s][order_number]
                oh  == [orderHeap EXCEPT ![ref] =
                           Committed(@, cart[s], import_ok)]
            IN  /\ orderHeap' = oh
                /\ pending' = [pending EXCEPT ![s] = MapPop(@, order_number)]
                /\ orders' = [orders EXCEPT ![s] = MapPut(@, order_number, ref)]
                /\ cart' = [cart EXCEPT ![s] = ListClear(@)]
                /\ IF import_ok
                   THEN /\ loc' = [Disturb(s) EXCEPT ![t] =
                               [loc[t] EXCEPT !.pc = "persist", !.sid = s,
                                              !.call_sid = call_sid, !.op = o,
                                              !.order_no = order_number,
                                              !.fin_order = ref]]
                        /\ InProgress(o, call_sid)
                        /\ UNCHANGED orderType
                   ELSE /\ loc' = [Disturb(s) EXCEPT ![t] = IdleLoc]
                        /\ orderType' = PopOrderType(call_sid)
                        /\ Returned(o, call_sid,
                                    OpResult(t, o, [ok |-> TRUE, order |-> oh[ref],
                                                    warning |-> FALSE], oh))

\* finalize_order as checkout_order awaits it
FinalizeLocked(t, import_ok) ==
    /\ loc[t].pc = "fin_lock"
    /\ FinalizeSection(t, loc[t].sid, loc[t].call_sid, "checkout_order",
                       loc[t].order_no, import_ok)
    /\ UNCHANGED <<settings, menu, known, heap, nops>>

\* finalize_order called on its own
FinalizeCall(t, call_sid, order_number, import_ok) ==
    /\ Idle(t)
    /\ Budget
    /\ known' = Created(call_sid)
    /\ FinalizeSection(t, _get_store(call_sid), call_sid, "finalize_order",
                       order_number, import_ok)
    /\ UNCHANGED <<settings, menu, heap>>

\* `await asyncio.to_thread(add_order_fn, order)`: add_order is a coroutine
\* function, so the call add_order(order) made in the worker thread builds a
\* coroutine object and runs none of its body; the await raises when the
\* thread call itself fails, never for a failing store
ToThreadRaises(thread_fails, store_fails) == thread_fails

\* the await returns or raises, outside the lock; then the order-type store
\* is popped and the function returns
PersistDone(t, thread_fails, store_fails) ==
    /\ loc[t].pc = "persist"
    /\ Returned(loc[t].op, loc[t].call_sid,
                OpResult(t, loc[t].op,
                         [ok |-> TRUE, order |-> orderHeap[loc[t].fin_order],
                          warning |-> ToThreadRaises(thread_fails, store_fails)],
                         orderHeap))
    /\ orderType' = PopOrderType(loc[t].call_sid)
    /\ loc' = [loc EXCEPT ![t] = IdleLoc]
    /\ Unlocked
    /\ UNCHANGED <<settings, menu, known, lock, cart, heap, pending, orders, orderHeap,
                   nops>>

\* ------------------------------------------------------------------------
\* discard_pending_order
\* ------------------------------------------------------------------------
DiscardPendingOrder(call_sid, order_number) ==
    /\ Section(call_sid)
    /\  LET s == _get_store(call_sid)
        IN  IF order_number \in DOMAIN pending[s]
            THEN /\ pending' = [pending EXCEPT ![s] = MapPop(@, order_number)]
                 /\ cart' = [cart EXCEPT ![s] = ListClear(@)]
                 /\ Returned("discard_pending_order", call_sid,
                             [ok |-> TRUE, discarded |-> TRUE])
            ELSE /\ Returned("discard_pending_order", call_sid,
                             [ok |-> FALSE, error |-> "Pending order not found."])
                 /\ UNCHANGED <<cart, pending>>
    /\ UNCHANGED <<settings, menu, heap, orders, orderHeap, orderType>>

\* ------------------------------------------------------------------------
\* agent_functions: call_agent_function and the targets it reaches
\* ------------------------------------------------------------------------
\* the names FUNCTION_MAP registers
FUNCTION_MAP ==
    { "menu_summary", "add_to_cart", "remove_from_cart", "modify_cart_item",
      "set_size_quantity", "get_cart", "order_is_placed", "checkout_order",
      "order_status", "extract_phone_and_order", "save_phone_number",
      "confirm_phone_number", "confirm_pending_to_cart", "clear_pending_item",
      "save_address", "get_order_type", "save_order_type",
      "get_cart_totals_for_call", "calculate_cart_total",
      "apply_pricing_adjustments" }

\* the names the dispatcher is called with
NameInputs ==
    { "order_status", "save_order_type", "modify_cart_item", "menu_summary",
      "cancel_order" }

\* the connection hints the dispatcher is called with: none, a connection
\* with a registered session, a connection without one
NoConn == "None"
ConnInputs == { NoConn, "conn-1", "conn-9" }

\* sessions.get(connection_id).get("call_sid")
HintedCallSid(connection_id) ==
    IF connection_id = "conn-1" THEN "call-2" ELSE NoSid

\* the arguments the dispatcher is called with: JSON texts and objects
ArgInputs ==
    { [none |-> TRUE],
      [str |-> <<"{","b","a","d">>],
      [str |-> <<"[","1","]">>],
      [str |-> <<"n","u","l","l">>],
      [str |-> <<"{","}">>],
      [int |-> 7],
      [dict |-> EmptyMap],
      [dict |-> [order_type |-> <<"P","i","c","k"," ","u","p"," ">>,
                 call_sid |-> "call-1"]],
      [dict |-> [bogus |-> 1]],
      [dict |-> [order_number |-> random_order_no(0)]],
      [dict |-> [index |-> 0, flavor |-> <<" ","f","a","r","m"," ">>]],
      [dict |-> [index |-> 0, size |-> Large, quantity |-> 2,
                 call_sid |-> "call-1"]],
      [dict |-> [index |-> 0, quantity |-> 3]] }

\* json.loads on the texts of ArgInputs: null, an array, the empty object;
\* any other text raises
json_loads(text) ==
    IF text = <<"n","u","l","l">> THEN [none |-> TRUE]
    ELSE IF Len(text) >= 2 /\ text[1] = "[" /\ text[Len(text)] = "]"
         THEN [list |-> TRUE]
    ELSE IF text = <<"{","}">> THEN [dict |-> EmptyMap]
    ELSE [raises |-> TRUE]

\* a parse that takes every value for the empty object
ParsedAny(arguments) == [dict |-> EmptyMap]

\* the arguments after `if isinstance(arguments, str)` and `if arguments is
\* None`
ParsedArguments(arguments) ==
    LET a == IF "str" \in DOMAIN arguments THEN json_loads(arguments.str)
             ELSE arguments
    IN  IF "none" \in DOMAIN a THEN [dict |-> EmptyMap] ELSE a

\* dict.get(k) with None as default
DictGet(d, k) == IF k \in DOMAIN d THEN d[k] ELSE None

\* arguments.pop("call_sid", None)
PoppedCallSid(d) == IF "call_sid" \in DOMAIN d THEN d["call_sid"] ELSE NoSid

\* the call_sid after `if not call_sid and connection_id`
EffectiveCallSid(d, connection_id) ==
    IF PoppedCallSid(d) = NoSid /\ connection_id # NoConn
    THEN HintedCallSid(connection_id)
    ELSE PoppedCallSid(d)

\* `if "flavor" in arguments and "item" not in arguments`
MapFlavor(d) ==
    IF "flavor" \in DOMAIN d /\ "item" \notin DOMAIN d
    THEN MapPut(MapPop(d, "flavor"), "item", d["flavor"])
    ELSE d

\* a signature inspection that finds call_sid in every target
AcceptsAlways(name) == TRUE

\* whether the target's signature has a call_sid parameter
_func_accepts_call_sid(name) ==
    name \notin {"menu_summary", "extract_phone_and_order"}

\* the keyword arguments _safe_call calls the target with
_safe_call(name, kwargs, call_sid) ==
    IF call_sid # NoSid /\ _func_accepts_call_sid(name)
    THEN MapPut(kwargs, "call_sid", call_sid)
    ELSE kwargs

\* the call_sid the target runs with
PassedCallSid(kwargs) ==
    IF "call_sid" \in DOMAIN kwargs THEN kwargs["call_sid"] ELSE NoSid

\* the keyword parameters of a target and the required ones
Params(name) ==
    IF name = "order_status" THEN {"phone", "order_number", "call_sid"}
    ELSE IF name = "save_order_type" THEN {"order_type", "call_sid"}
    ELSE IF name = "modify_cart_item"
    THEN {"index", "flavor", "toppings", "size", "quantity", "addons",
          "call_sid"}
    ELSE {}

Required(name) ==
    IF name = "save_order_type" THEN {"order_type"}
    ELSE IF name = "modify_cart_item" THEN {"index"}
    ELSE {}

\* func(**kwargs) raises TypeError: an unexpected or a missing argument
SignatureMismatch(name, kwargs) ==
    \/ \E k \in DOMAIN kwargs : k \notin Params(name)
    \/ \E k \in Required(name) : k \notin DOMAIN kwargs

\* orders.json as order_status reads it
OrderList ==
    << [order_number |-> random_order_no(0),
        phone |-> <<"+","1","4","1","5","5","5","5","2","6","7","1">>,
        status |-> "received"] >>

\* bl.order_status once the file is read: a dict, or None
order_status(data, phone, order_number) ==
    LET byno == {i \in 1..Len(data) : data[i].order_number = order_number}
        byph == {i \in 1..Len(data) : data[i].phone = phone}
        first(S) == CHOOSE i \in S : \A j \in S : i <= j
        found(i) == [found |-> TRUE, order_number |-> data[i].order_number,
                     status |-> data[i].status]
    IN  IF Truthy(order_number)
        THEN IF byno # {} THEN [dict |-> found(first(byno))]
             ELSE [none |-> TRUE]
        ELSE IF Truthy(phone)
        THEN IF byph # {} THEN [dict |-> found(first(byph))]
             ELSE [none |-> TRUE]
        ELSE [dict |-> [found |-> FALSE]]

\* the tail of call_agent_function: a dict is returned as it is, anything
\* else wrapped
DispatchResult(result) ==
    IF "dict" \in DOMAIN result THEN result.dict
    ELSE [ok |-> TRUE, result |-> None]

\* a return of call_agent_function that invoked no target
DispatchRejects(x, error) ==
    /\ Budget
    /\ Unlocked
    /\ ReturnedTo("call_agent_function", x, NoSid, [ok |-> FALSE, error |-> error])
    /\ UNCHANGED <<settings, menu, known, lock, cart, heap, pending, orders, orderHeap,
                   orderType, loc>>

\* _order_status: bl.order_status takes the store, reads orders.json, which
\* may raise, and scans the list under the lock
OrderStatusTarget(x, kwargs, call_sid, file_ok) ==
    IF ~file_ok
    THEN /\ Budget
         /\ Unlocked
         /\ known' = Created(call_sid)
         /\ ReturnedTo("call_agent_function", x, call_sid,
                        [ok |-> FALSE, error |-> "No such file or directory"])
         /\ UNCHANGED <<settings, menu, lock, cart, heap, pending, orders, orderHeap,
                        orderType, loc>>
    ELSE /\ Section(call_sid)
         /\ ReturnedTo("call_agent_function", x, call_sid,
                     DispatchResult(
                         order_status(OrderList,
                                      DictGet(kwargs, "phone"),
                                      DictGet(kwargs, "order_number"))))
         /\ UNCHANGED <<settings, menu, cart, heap, pending, orders, orderHeap,
                        orderType>>

\* _save_order_type: bl.save_order_type, then the result dict
SaveOrderTypeTarget(x, kwargs, call_sid) ==
    LET v == NormalizeOrderType(kwargs["order_type"])
    IN  IF v = None
        THEN /\ Budget
             /\ Unlocked
             /\ ReturnedTo("call_agent_function", x, call_sid,
                         [ok |-> FALSE,
                          error |-> "Invalid order_type, expected pickup or delivery."])
             /\ UNCHANGED <<settings, menu, known, lock, cart, heap, pending, orders,
                            orderHeap, orderType, loc>>
        ELSE /\ Section(call_sid)
             /\ orderType' = [orderType EXCEPT ![_get_store(call_sid)] = v]
             /\ ReturnedTo("call_agent_function", x, call_sid,
                         [ok |-> TRUE, order_type |-> v])
             /\ UNCHANGED <<settings, menu, cart, heap, pending, orders, orderHeap>>

\* _modify_cart_item: bl.modify_cart_item with the arguments given, None for
\* the others
ModifyCartItemTarget(x, kwargs, call_sid) ==
    ModifyCartItemVia("call_agent_function", x, call_sid, kwargs["index"],
        [flavor   |-> DictGet(kwargs, "flavor"),
         toppings |-> IF "toppings" \in DOMAIN kwargs THEN kwargs["toppings"]
                      ELSE NoneList,
         size     |-> DictGet(kwargs, "size"),
         quantity |-> IF "quantity" \in DOMAIN kwargs THEN kwargs["quantity"]
                      ELSE NoQty,
         addons   |-> IF "addons" \in DOMAIN kwargs THEN kwargs["addons"]
                      ELSE NoneList])

\* _menu_summary: bl.menu_summary reads the menu and takes no store
MenuSummaryTarget(x) ==
    /\ Budget
    /\ Unlocked
    /\ ReturnedTo("call_agent_function", x, NoSid,
                [summary |-> "We offer a selection of pizzas.",
                 flavors |-> menu.flavors, toppings |-> menu.toppings,
                 addons |-> menu.addons, sizes |-> menu.sizes,
                 prices |-> EmptyMap])
    /\ UNCHANGED <<settings, menu, known, lock, cart, heap, pending, orders, orderHeap,
                   orderType, loc>>

\* the keyword arguments the target is called with
TargetKwargs(name, d, connection_id) ==
    _safe_call(name, MapFlavor(MapPop(d, "call_sid")),
               EffectiveCallSid(d, connection_id))

\* whether orders.json can be read, for the target that reads it
FileInputs(name) == IF name = "order_status" THEN BOOLEAN ELSE {TRUE}

\* call_agent_function(name, arguments, connection_id=connection_id)
CallAgentFunction(name, arguments, connection_id, file_ok) ==
    /\ nops < MaxOps
    /\ LET a == ParsedArguments(arguments)
           x == <<name, arguments, connection_id>>
       IN
        IF name \notin FUNCTION_MAP
        THEN DispatchRejects(x, "Unknown function: " \o name)
        ELSE IF "raises" \in DOMAIN a
        THEN DispatchRejects(x, "Invalid JSON arguments.")
        ELSE IF "dict" \notin DOMAIN a
        THEN DispatchRejects(x, "Arguments must be an object/dict.")
        ELSE LET kwargs == TargetKwargs(name, a.dict, connection_id)
                 call_sid == PassedCallSid(kwargs)
             IN  IF SignatureMismatch(name, kwargs)
                 THEN DispatchRejects(x, "Function signature mismatch")
                 ELSE IF name = "order_status"
                 THEN OrderStatusTarget(x, kwargs, call_sid, file_ok)
                 ELSE IF name = "save_order_type"
                 THEN SaveOrderTypeTarget(x, kwargs, call_sid)
                 ELSE IF name = "modify_cart_item"
                 THEN ModifyCartItemTarget(x, kwargs, call_sid)
                 ELSE MenuSummaryTarget(x)

\* ------------------------------------------------------------------------
\* The system
\* ------------------------------------------------------------------------
StoredInputs == {0, MaxStored - 2, MaxStored - 1, MaxStored}
DrawInputs == 0..(MaxOrderDraw - 1)

Next ==
    \/ \E c \in CallSids, item \in NoItemInputs : AddNoItem(c, item)
    \/ \E c \in CallSids, r \in AddRequests : AddToCart(c, r)
    \/ \E c \in CallSids, i \in IndexInputs : RemoveFromCart(c, i)
    \/ \E c \in CallSids, i \in IndexInputs, r \in ModifyRequests :
          ModifyCartItem(c, i, r)
    \/ \E c \in CallSids, i \in SsqIndexInputs, r \in SsqRequests :
          SetSizeQuantity(c, i, r)
    \/ \E c \in CallSids : GetCart(c)
    \/ SnapshotListMutate
    \/ SnapshotItemMutate
    \/ \E c \in CallSids, ot \in OrderTypeInputs : SaveOrderType(c, ot)
    \/ \E c \in CallSids : GetOrderType(c)
    \/ \E t \in Tasks, c \in CallSids, ot \in OrderTypeInputs :
          CheckoutStart(t, c, ot)
    \/ \E t \in Tasks, phone \in PhoneInputs, address \in AddressInputs,
          stored \in StoredInputs, n \in DrawInputs :
          CheckoutLocked(t, phone, address, stored, n)
    \/ \E t \in Tasks, import_ok \in BOOLEAN : FinalizeLocked(t, import_ok)
    \/ \E t \in Tasks, c \in CallSids, o \in OrderNoInputs, import_ok \in BOOLEAN :
          FinalizeCall(t, c, o, import_ok)
    \/ \E t \in Tasks, thread_fails \in BOOLEAN, store_fails \in BOOLEAN :
          PersistDone(t, thread_fails, store_fails)
    \/ \E c \in CallSids, o \in OrderNoInputs : DiscardPendingOrder(c, o)

Spec == Init /\ [][Next]_vars

\* the agent's tool calls: call_agent_function on the sessions of Init
DispatchNext ==
    \E name \in NameInputs, arguments \in ArgInputs,
       connection_id \in ConnInputs :
       \E file_ok \in FileInputs(name) :
          CallAgentFunction(name, arguments, connection_id, file_ok)

DispatchSpec == Init /\ [][DispatchNext]_vars

\* ------------------------------------------------------------------------
\* Properties
\* ------------------------------------------------------------------------
\* call identifiers that name a session of their own
Sessions == CallSids \ {NoSid}

\* the order dicts of a map, with the item dicts their items refer to
OrdersView(m) ==
    [k \in DOMAIN m |-> [orderHeap[m[k]] EXCEPT !.items = Deref(heap, @)]]

\* what session s holds: its cart, its pending and its committed orders
SessionView(s) == <<CartView(s), OrdersView(pending[s]), OrdersView(orders[s])>>

\* a step of add, remove, modify, set_size_quantity, checkout, finalize or
\* discard made with call_sid c
CallOn(c) ==
    \/ \E item \in NoItemInputs : AddNoItem(c, item)
    \/ \E r \in AddRequests : AddToCart(c, r)
    \/ \E i \in IndexInputs : RemoveFromCart(c, i)
    \/ \E i \in IndexInputs, r \in ModifyRequests : ModifyCartItem(c, i, r)
    \/ \E i \in SsqIndexInputs, r \in SsqRequests : SetSizeQuantity(c, i, r)
    \/ \E t \in Tasks, ot \in OrderTypeInputs : CheckoutStart(t, c, ot)
    \/ \E t \in Tasks :
          /\ loc[t].call_sid = c
          /\ \/ \E phone \in PhoneInputs, address \in AddressInputs,
                   stored \in StoredInputs, n \in DrawInputs :
                   CheckoutLocked(t, phone, address, stored, n)
             \/ \E import_ok \in BOOLEAN : FinalizeLocked(t, import_ok)
             \/ \E thread_fails \in BOOLEAN, store_fails \in BOOLEAN :
                   PersistDone(t, thread_fails, store_fails)
    \/ \E t \in Tasks, o \in OrderNoInputs, import_ok \in BOOLEAN :
          FinalizeCall(t, c, o, import_ok)
    \/ \E o \in OrderNoInputs : DiscardPendingOrder(c, o)

\* C1: for distinct call identifiers A and B, no step of an add, remove,
\* modify, set_size_quantity, checkout, finalize or discard call on A
\* changes B's cart (entries and item contents), PendingOrders or Orders:
\* a step that changes any of them for B is a step of no such call on A
C1_SessionsIsolated ==
    [][\A A \in Sessions, B \in Sessions :
          (A # B /\ SessionView(B)' # SessionView(B)) => ~CallOn(A)]_vars

\* an add on call-1 went through while call-2 holds a cart and an order
C1_Witness ==
    /\ last.op = "add_to_cart" /\ last.done /\ Ok(last.ret)
    /\ Len(cart["call-1"]) = 3
    /\ Len(cart["call-2"]) = 1
    /\ orders["call-2"] # EmptyMap

\* C2: every step that writes a session's cart, PendingOrders, Orders or
\* OrderType slot holds that session's lock.  (That at most one operation is
\* inside a session's critical section holds by the shape of the code: no
\* `async with lock` block contains an await.)
C2_WritesUnderLock ==
    [][\A s \in StoreKeys :
          (\/ cart'[s] # cart[s]
           \/ pending'[s] # pending[s]
           \/ orders'[s] # orders[s]
           \/ orderType'[s] # orderType[s]) => held' = s]_vars

\* C3: the total pizza quantity of every session's cart is at most MAX_PIZZAS
C3_QuantityBound == \A s \in StoreKeys : CartQuantity(s) <= MAX_PIZZAS

\* the quantity an add request asks for: `quantity or 1`
Requested(r) == IF r.quantity # NoQty THEN r.quantity ELSE 1

\* the call returned {"ok": False, ...}
Rejected(r) == "ok" \in DOMAIN r /\ ~r.ok

\* C4: an add whose quantity would take the session's total quantity past
\* MAX_PIZZAS is rejected and leaves the cart as it was
C4_OverLimitRejected ==
    [][\A c \in CallSids, r \in AddRequests :
          (/\ last'.op = "add_to_cart"
           /\ held' = _get_store(c)
           /\ Requested(r) >= 1
           /\ CartQuantity(_get_store(c)) + Requested(r) > MAX_PIZZAS
           /\ AddToCart(c, r))
          => (/\ Rejected(last'.ret)
              /\ cart'[_get_store(c)] = cart[_get_store(c)]
              /\ CartView(_get_store(c))' = CartView(_get_store(c)))]_vars

InList(x, l) == \E i \in 1..Len(l) : l[i] = x

\* the flavor and every topping of request r resolve to entries of menu m
Resolves(r, m) ==
    /\ InList(FlavorMatch(r.item, m), m.flavors)
    /\ \A i \in 1..Len(ToppingsIn(r.toppings)) :
          InList(ToppingMatch(ToppingsIn(r.toppings)[i], m), m.toppings)

\* an add of request r with call_sid c that C5 speaks of
ValidAdd(c, r) ==
    /\ last'.op = "add_to_cart"
    /\ held' = _get_store(c)
    /\ Requested(r) >= 1
    /\ CartQuantity(_get_store(c)) + Requested(r) <= MAX_PIZZAS
    /\ Resolves(r, menu)
    /\ AddToCart(c, r)

\* the cart of store s grew by exactly n entries, each a new dict that
\* carries a menu flavor, menu toppings and no quantity
Appended(s, r, n) ==
    /\ Len(cart'[s]) = Len(cart[s]) + n
    /\ SubSeq(cart'[s], 1, Len(cart[s])) = cart[s]
    /\ SubSeq(CartView(s)', 1, Len(cart[s])) = CartView(s)
    /\ \A i \in (Len(cart[s]) + 1)..Len(cart'[s]) :
          /\ cart'[s][i] > Len(heap)
          /\ \A j \in 1..Len(cart'[s]) : j # i => cart'[s][j] # cart'[s][i]
          /\ InList(heap'[cart'[s][i]].item, menu.flavors)
          /\ Len(heap'[cart'[s][i]].toppings) = Len(ToppingsIn(r.toppings))
          /\ \A k \in 1..Len(heap'[cart'[s][i]].toppings) :
                InList(heap'[cart'[s][i]].toppings[k], menu.toppings)
          /\ heap'[cart'[s][i]].quantity = NoQty

Unrelated(v, name) ==
    ~StrIn(v, Lower(Strip(name))) /\ ~StrIn(Lower(Strip(name)), v)

\* the requested flavor matches no flavor of menu m (add-ons do not count)
FlavorUnknown(r, m) ==
    \A i \in 1..Len(m.flavors) : Unrelated(_normalize(r.item), m.flavors[i])

\* the requested topping x matches no topping of menu m and no alias
ToppingUnknown(x, m) ==
    /\ \A i \in 1..Len(m.toppings) : Unrelated(x, m.toppings[i])
    /\ \A i \in 1..Len(TOPPING_ALIASES) :
          /\ Unrelated(x, TOPPING_ALIASES[i].canonical)
          /\ \A a \in TOPPING_ALIASES[i].variants : Unrelated(x, a)

\* the flavor of request r, or one of its toppings, matches nothing under
\* menu m
UnresolvedUnder(r, m) ==
    \/ FlavorUnknown(r, m)
    \/ \E i \in 1..Len(ToppingsIn(r.toppings)) :
          ToppingUnknown(ToppingsIn(r.toppings)[i], m)

\* the same, worked out once for the requests and the menus of the model
UnresolvedTable ==
    [m \in Menus |-> {r \in AddRequests : UnresolvedUnder(r, m)}]

Unresolved(r, m) ==
    IF m \in Menus /\ r \in AddRequests THEN r \in UnresolvedTable[m]
    ELSE UnresolvedUnder(r, m)

\* C6: an add whose flavor resolves to no menu flavor, or one of whose
\* toppings resolves to nothing, returns ok:false and appends nothing
C6_UnresolvedRejected ==
    [][\A c \in CallSids, r \in AddRequests :
          (/\ last'.op = "add_to_cart"
           /\ held' = _get_store(c)
           /\ Unresolved(r, menu)
           /\ AddToCart(c, r))
          => (/\ Rejected(last'.ret)
              /\ cart' = cart
              /\ heap' = heap)]_vars

\* an add with a valid flavor, a valid first topping and an unknown second
\* topping was rejected on a cart that holds items
C6_Witness ==
    /\ last.op = "add_to_cart" /\ last.done /\ Rejected(last.ret)
    /\ last.ret.error = "Topping not available."
    /\ last.ret.what = <<"x","y","z">>
    /\ Len(cart["call-1"]) = 2

\* C7: a change the caller makes to a returned snapshot (its list or an item
\* dict in it) changes no session's live cart
C7_SnapshotDetached ==
    [][(last.op = "get_cart" /\ ~last.mutated /\ last'.mutated) =>
          \A s \in StoreKeys :
              cart'[s] = cart[s] /\ CartView(s)' = CartView(s)]_vars

\* a step in which a get_cart call returns
GetCartReturns ==
    /\ last'.op = "get_cart" /\ last'.done /\ ~last'.mutated
    /\ nops' = nops + 1

CheckoutLeavesLock(t) ==
    /\ loc[t].pc = "co_lock"
    /\ loc'[t].pc # "co_lock"

\* C9: a checkout that finds the cart empty returns ok:false "Cart is
\* empty.", and creates no pending order, no order and no order number
C9_EmptyCartRejected ==
    [][\A t \in Tasks :
          (CheckoutLeavesLock(t) /\ cart[loc[t].sid] = <<>>)
          => (/\ last'.op = "checkout_order" /\ last'.done
              /\ last'.ret = [ok |-> FALSE, error |-> "Cart is empty."]
              /\ loc'[t].pc = "idle"
              /\ pending' = pending
              /\ orders' = orders
              /\ orderHeap' = orderHeap)]_vars

\* a checkout was rejected for an empty cart
C9_Witness ==
    /\ last.op = "checkout_order" /\ last.done /\ Rejected(last.ret)
    /\ last.ret.error = "Cart is empty."
    /\ \A s \in StoreKeys : pending[s] = EmptyMap
    /\ \E s \in StoreKeys : cart[s] = <<>> /\ orders[s] = EmptyMap

\* task t's checkout returns in this step, no other call having run on its
\* session since it started
QuietCheckoutReturns(t) ==
    /\ loc[t].op = "checkout_order"
    /\ loc[t].pc \in {"fin_lock", "persist"}
    /\ loc[t].quiet
    /\ loc'[t].pc = "idle"
    /\ last'.done /\ Ok(last'.ret)

UnitPrice(name, m) ==
    IF ~InList(name, m.flavors) THEN 0
    ELSE IF name = Cheezy7 THEN 300
    ELSE IF name = Farm THEN 250
    ELSE 0

RECURSIVE Subtotal(_, _)
Subtotal(items, m) ==
    IF items = <<>> THEN 0
    ELSE UnitPrice(Head(items).item, m) * ItemQty(Head(items))
         + Subtotal(Tail(items), m)

\* the pricing record of a cart: line totals summed, no adjustment
price_cart(items, m) ==
    [subtotal |-> Subtotal(items, m), total |-> Subtotal(items, m)]

\* order dict o carries the pricing of its items under menu m
Priced(o, items, m) ==
    /\ "pricing" \in DOMAIN o
    /\ o.pricing.total = price_cart(items, m).total

\* C11: an order that a step stores into Orders carries a pricing record
\* whose total is price_cart of its items under the menu of that moment
C11_CommittedOrdersPriced ==
    [][\A s \in StoreKeys : \A k \in DOMAIN orders'[s] :
          (k \notin DOMAIN orders[s] \/ orders'[s][k] # orders[s][k])
          => Priced(orderHeap'[orders'[s][k]],
                    Deref(heap', orderHeap'[orders'[s][k]].items), menu')]_vars

\* C12: in every session an order number goes none -> pending -> committed
\* or none -> pending -> discarded: a number committed in Orders never
\* becomes a key of PendingOrders again, is never removed from Orders and
\* keeps the order stored under it; an order enters Orders only from
\* PendingOrders, so a discarded order is never committed
C12_CommittedIsTerminal ==
    [][\A s \in StoreKeys :
          /\ \A k \in DOMAIN orders[s] :
                /\ k \notin DOMAIN pending'[s]
                /\ k \in DOMAIN orders'[s]
                /\ orders'[s][k] = orders[s][k]
          /\ \A k \in DOMAIN orders'[s] :
                k \notin DOMAIN orders[s]
                => k \in DOMAIN pending[s] /\ orders'[s][k] = pending[s][k]]_vars

\* what session s holds in its cart, PendingOrders and Orders stays as it is
Untouched(s) == SessionView(s)' = SessionView(s)

\* C13: finalize_order with an order number that is not a key of the
\* session's PendingOrders returns ok:false "Pending order not found." and
\* leaves the session's cart, PendingOrders and Orders unchanged; the
\* finalize that checkout_order awaits leaves them unchanged likewise; a
\* number a step commits is no longer pending, so a second finalize of it
\* is such a call
C13_FinalizeNotFound ==
    [][/\ \A c \in CallSids, o \in OrderNoInputs :
             (/\ last'.op = "finalize_order"
              /\ o \notin DOMAIN pending[_get_store(c)]
              /\ \E t \in Tasks, import_ok \in BOOLEAN :
                    FinalizeCall(t, c, o, import_ok))
             => /\ last'.done
                /\ last'.ret = [ok |-> FALSE,
                                error |-> "Pending order not found."]
                /\ Untouched(_get_store(c))
       /\ \A t \in Tasks, s \in StoreKeys :
             (/\ loc[t].pc = "fin_lock"
              /\ loc[t].sid = s
              /\ loc[t].order_no \notin DOMAIN pending[s]
              /\ \E import_ok \in BOOLEAN : FinalizeLocked(t, import_ok))
             => Untouched(s)
       /\ \A s \in StoreKeys : \A k \in DOMAIN orders'[s] :
             (k \notin DOMAIN orders[s] \/ orders'[s][k] # orders[s][k])
             => k \notin DOMAIN pending'[s]]_vars

\* a finalize_order was rejected while its number is pending, in another
\* session only
C13_Witness ==
    /\ last.op = "finalize_order"
    /\ last.done
    /\ ~Ok(last.ret)
    /\ random_order_no(0) \in DOMAIN pending["call-1"]
    /\ \A s \in StoreKeys \ {"call-1"} : pending[s] = EmptyMap

\* a discard_pending_order step made with call_sid c for number o
DiscardOn(c, o) ==
    /\ last'.op = "discard_pending_order"
    /\ DiscardPendingOrder(c, o)

\* C14: discard_pending_order of a pending number removes it from
\* PendingOrders and empties the session's cart, and its order never appears
\* in Orders (Orders takes an order only from PendingOrders, PendingOrders
\* only a newly built one); discard of a number that is not pending returns
\* ok:false and changes neither the cart, PendingOrders nor Orders
C14_Discard ==
    [][/\ \A c \in CallSids, o \in OrderNoInputs :
             /\ (o \in DOMAIN pending[_get_store(c)] /\ DiscardOn(c, o))
                => /\ Ok(last'.ret)
                   /\ o \notin DOMAIN pending'[_get_store(c)]
                   /\ cart'[_get_store(c)] = <<>>
                   /\ orders' = orders
             /\ (o \notin DOMAIN pending[_get_store(c)] /\ DiscardOn(c, o))
                => /\ ~Ok(last'.ret)
                   /\ Untouched(_get_store(c))
       /\ \A s \in StoreKeys :
             /\ \A k \in DOMAIN orders'[s] :
                   (k \notin DOMAIN orders[s] \/ orders'[s][k] # orders[s][k])
                   => k \in DOMAIN pending[s] /\ orders'[s][k] = pending[s][k]
             /\ \A k \in DOMAIN pending'[s] :
                   (k \notin DOMAIN pending[s] \/ pending'[s][k] # pending[s][k])
                   => pending'[s][k] > Len(orderHeap)]_vars

\* the order of a checkout in progress was discarded: the number is gone
\* from PendingOrders, the cart is empty and Orders holds nothing
C14_Witness ==
    /\ last.op = "discard_pending_order"
    /\ Ok(last.ret)
    /\ pending["call-1"] = EmptyMap
    /\ cart["call-1"] = <<>>
    /\ orders["call-1"] = EmptyMap
    /\ Len(orderHeap) = 1

\* the result of a checkout_order rejected for the per-phone limit
LimitRejected(r) == "limit_reached" \in DOMAIN r /\ r.limit_reached

\* C15: checkout_order on a non-empty cart with a phone that normalizes is
\* rejected with limit_reached, the active-order count, the cart quantity
\* and the maximum exactly when active orders + total pizza quantity of the
\* cart > MAX_ORDERS_PER_PHONE; the rejected call creates no pending order
\* and leaves the cart unchanged
C15_LimitByQuantity ==
    [][\A t \in Tasks, s \in StoreKeys, phone \in PhoneInputs,
          stored \in StoredInputs :
          (/\ loc[t].pc = "co_lock"
           /\ loc[t].sid = s
           /\ cart[s] # <<>>
           /\ Truthy(normalize_phone(phone))
           /\ \E address \in AddressInputs, n \in DrawInputs :
                 CheckoutLocked(t, phone, address, stored, n))
          => LET active == count_active_orders_for_phone(
                               OrdersFile(normalize_phone(phone), stored),
                               normalize_phone(phone))
             IN  /\ (last'.done /\ LimitRejected(last'.ret))
                    <=> active + CartQuantity(s) > MAX_ORDERS_PER_PHONE
                 /\ (last'.done /\ LimitRejected(last'.ret))
                    => /\ ~Ok(last'.ret)
                       /\ last'.ret.active_orders = active
                       /\ last'.ret.cart_pizzas = CartQuantity(s)
                       /\ last'.ret.max_allowed = MAX_ORDERS_PER_PHONE
                       /\ Untouched(s)]_vars

\* C16: checkout_order called with a phone string that does not normalize
\* returns ok:false and creates no pending or committed order
C16_InvalidPhoneRejected ==
    [][\A t \in Tasks, phone \in PhoneInputs :
          (/\ loc[t].pc = "co_lock"
           /\ Truthy(phone)
           /\ ~Truthy(normalize_phone(phone))
           /\ \E address \in AddressInputs, stored \in StoredInputs,
                 n \in DrawInputs :
                 CheckoutLocked(t, phone, address, stored, n))
          => /\ last'.done
             /\ ~Ok(last'.ret)
             /\ pending' = pending
             /\ orders' = orders]_vars

\* C17: when the persist call of a finalize_order fails, whether in the
\* thread call or in the external store, finalize_order returns ok:true with
\* a warning and the commit stays: the order is in Orders with committed
\* set, and the step changes neither the cart, PendingOrders nor Orders
C17_PersistFailureWarns ==
    [][\A t \in Tasks, thread_fails \in BOOLEAN, store_fails \in BOOLEAN :
          (/\ loc[t].pc = "persist"
           /\ loc[t].op = "finalize_order"
           /\ thread_fails \/ store_fails
           /\ PersistDone(t, thread_fails, store_fails))
          => /\ last'.done
             /\ Ok(last'.ret)
             /\ last'.ret.warning
             /\ orderHeap'[loc[t].fin_order].committed
             /\ \E s \in StoreKeys : \E k \in DOMAIN orders'[s] :
                   orders'[s][k] = loc[t].fin_order
             /\ UNCHANGED <<cart, pending, orders>>]_vars

\* C18: when a finalize_order that committed an order returns, with
\* persistence done or failed, the OrderType slot of its session is unset,
\* for a session with an identifier and for the legacy session
C18_OrderTypeCleared ==
    [][\A s \in StoreKeys :
          (\/ orders'[s] # orders[s] /\ last'.done
           \/ \E t \in Tasks : /\ loc[t].pc = "persist"
                               /\ loc[t].sid = s
                               /\ loc'[t].pc = "idle")
          => orderType'[s] = None]_vars

\* the dispatcher reaches the target and the target raises: the call does
\* not fit its signature, or order_status cannot read orders.json
TargetRaises(name, arguments, connection_id, file_ok) ==
    /\ name \in FUNCTION_MAP
    /\ "dict" \in DOMAIN ParsedArguments(arguments)
    /\ \/ SignatureMismatch(name,
              TargetKwargs(name, ParsedArguments(arguments).dict,
                           connection_id))
       \/ name = "order_status" /\ ~file_ok

\* C19: call_agent_function returns, for every name and every arguments
\* value, an object with a boolean ok, and one with ok = false and an error
\* message whenever the target raises
C19_DispatchReturnsOk ==
    [][\A name \in NameInputs, arguments \in ArgInputs,
          connection_id \in ConnInputs, file_ok \in BOOLEAN :
          (/\ last'.op = "call_agent_function"
           /\ last'.call = <<name, arguments, connection_id>>
           /\ CallAgentFunction(name, arguments, connection_id, file_ok))
          => /\ last'.done
             /\ "ok" \in DOMAIN last'.ret
             /\ last'.ret.ok \in BOOLEAN
             /\ TargetRaises(name, arguments, connection_id, file_ok)
                => ~last'.ret.ok /\ "error" \in DOMAIN last'.ret]_vars

\* a call_agent_function step with these inputs
Dispatched(name, arguments) ==
    /\ last'.op = "call_agent_function"
    /\ \E connection_id \in ConnInputs :
          /\ last'.call = <<name, arguments, connection_id>>
          /\ \E file_ok \in BOOLEAN :
                CallAgentFunction(name, arguments, connection_id, file_ok)

\* the step returned ok:false, invoked no operation and changed no session
RejectedUninvoked ==
    /\ last'.done
    /\ Rejected(last'.ret)
    /\ held' = NoLock
    /\ UNCHANGED <<known, cart, heap, pending, orders, orderHeap, orderType>>

\* the arguments are a text that is not valid JSON
InvalidJson(arguments) ==
    "str" \in DOMAIN arguments /\ "raises" \in DOMAIN json_loads(arguments.str)

\* the arguments, decoded if they are a text, are neither an object nor null
NotObjectNorNull(arguments) ==
    LET a == IF "str" \in DOMAIN arguments THEN json_loads(arguments.str)
             ELSE arguments
    IN  "dict" \notin DOMAIN a /\ "none" \notin DOMAIN a /\ "raises" \notin DOMAIN a

\* the arguments, decoded if they are a text, are null
IsNull(arguments) ==
    \/ "none" \in DOMAIN arguments
    \/ "str" \in DOMAIN arguments /\ "none" \in DOMAIN json_loads(arguments.str)

\* C20 as stated: an unregistered name, a text that is not valid JSON or
\* arguments that are not an object, null among them, get ok:false with no
\* operation invoked and no session changed
C20_NonObjectRejected ==
    [][\A name \in NameInputs, arguments \in ArgInputs :
          (/\ \/ name \notin FUNCTION_MAP
              \/ InvalidJson(arguments)
              \/ NotObjectNorNull(arguments)
              \/ IsNull(arguments)
           /\ Dispatched(name, arguments))
          => RejectedUninvoked]_vars

\* C20: an unregistered name ("Unknown function: <name>"), a text that is
\* not valid JSON or arguments that are neither an object nor null get
\* ok:false with no operation invoked and no session's cart, PendingOrders,
\* Orders or OrderType changed; null arguments stand for the empty object
C20_RejectsWithoutInvoking ==
    [][\A name \in NameInputs, arguments \in ArgInputs :
          (/\ \/ name \notin FUNCTION_MAP
              \/ InvalidJson(arguments)
              \/ NotObjectNorNull(arguments)
           /\ Dispatched(name, arguments))
          => /\ RejectedUninvoked
             /\ name \notin FUNCTION_MAP
                => last'.ret.error = "Unknown function: " \o name]_vars

\* an unregistered name was turned down while sessions hold carts and orders
C20_Witness ==
    /\ last.op = "call_agent_function"
    /\ last.ret = [ok |-> FALSE, error |-> "Unknown function: cancel_order"]
    /\ cart["call-1"] # <<>>
    /\ orders["call-2"] # EmptyMap
    /\ orderType["call-2"] = Pickup

\* the session the arguments and the connection hint name: the call_sid
\* field, else the session of the connection, else none
ResolvedSession(d, connection_id) ==
    IF "call_sid" \in DOMAIN d /\ d["call_sid"] # NoSid THEN d["call_sid"]
    ELSE IF connection_id # NoConn THEN HintedCallSid(connection_id)
    ELSE NoSid

\* the inputs of call_agent_function whose arguments are an object, with
\* the store they resolve to
ObjectCalls ==
    { x \in (NameInputs \cap FUNCTION_MAP) \X ArgInputs \X ConnInputs :
         "dict" \in DOMAIN ParsedArguments(x[2]) }

ResolvedStore(x) ==
    _get_store(ResolvedSession(ParsedArguments(x[2]).dict, x[3]))

\* a call_agent_function step with inputs x
DispatchedWith(x) ==
    /\ last'.op = "call_agent_function"
    /\ last'.call = x
    /\ \E file_ok \in FileInputs(x[1]) :
          CallAgentFunction(x[1], x[2], x[3], file_ok)

\* the step took no lock but that of store s, created no session but s and
\* changed no cart, PendingOrders, Orders or OrderType but those of s
OnlyOn(s) ==
    /\ held' \in {NoLock, s}
    /\ known' \subseteq known \cup {s}
    /\ \A u \in StoreKeys \ {s} : Untouched(u) /\ orderType'[u] = orderType[u]

\* C21: call_agent_function runs the target on the session of the call_sid
\* field of the arguments when there is one, else on the session of the
\* connection hint, else on the legacy session; the step takes no other
\* session's lock and changes no other session's cart, PendingOrders, Orders
\* or OrderType, and a target without a call_sid parameter is called without
\* one rather than failing on it
C21_DispatchSession ==
    [][(/\ last'.op = "call_agent_function"
        /\ last'.call \in ObjectCalls
        /\ DispatchedWith(last'.call))
       => LET x == last'.call
              s == ResolvedStore(last'.call)
          IN  /\ OnlyOn(s)
              /\ (x[1] = "save_order_type" /\ Ok(last'.ret))
                 => held' = s /\ orderType'[s] = last'.ret.order_type
              /\ (x[1] = "modify_cart_item" /\ Ok(last'.ret))
                 => /\ held' = s
                    /\ \E i \in 1..Len(cart[s]) : cart[s][i] = last'.ret.item
              /\ (/\ x[1] = "menu_summary"
                  /\ DOMAIN ParsedArguments(x[2]).dict \subseteq {"call_sid"})
                 => /\ "summary" \in DOMAIN last'.ret
                    /\ held' = NoLock
                    /\ known' = known]_vars

\* a dispatched modify_cart_item changed the first item of the cart of
\* call-1, the session its call_sid field names
C21_Witness ==
    /\ last.op = "call_agent_function"
    /\ Ok(last.ret)
    /\ "item" \in DOMAIN last.ret
    /\ last.ret.item = cart["call-1"][1]
    /\ heap[last.ret.item].quantity = 2
    /\ heap[last.ret.item].size = Large

\* C22: a flavor argument reaches a target that takes flavor and not item
\* as flavor: modify_cart_item dispatched with an index inside the cart and
\* a flavor on the menu returns ok:true and sets that item's flavor
C22_FlavorReachesModify ==
    [][(/\ last'.op = "call_agent_function"
        /\ last'.call \in ObjectCalls
        /\ last'.call[1] = "modify_cart_item"
        /\ DispatchedWith(last'.call))
       => LET d == ParsedArguments(last'.call[2]).dict
              s == ResolvedStore(last'.call)
          IN  (/\ {"index", "flavor"} \subseteq DOMAIN d
               /\ IndexInRange(d["index"], cart[s])
               /\ Truthy(d["flavor"])
               /\ Truthy(FlavorMatch(d["flavor"], menu)))
              => /\ Ok(last'.ret)
                 /\ heap'[cart[s][d["index"] + 1]].item
                       = FlavorMatch(d["flavor"], menu)]_vars

\* C26: the calls made without a call_sid work on the one legacy store and
\* on no session's cart, PendingOrders or Orders, and the calls made with a
\* call_sid leave the legacy store alone: an add without a call_sid extends
\* the legacy cart, get_cart without one returns the legacy cart, and
\* get_cart of a session returns none of its items
C26_LegacyShared ==
    [][/\ \A B \in Sessions :
             SessionView(B)' # SessionView(B) => ~CallOn(NoSid)
       /\ SessionView(LEGACY)' # SessionView(LEGACY)
          => \A A \in Sessions : ~CallOn(A)
       /\ (/\ last'.op = "add_to_cart"
           /\ Ok(last'.ret)
           /\ \E r \in AddRequests : AddToCart(NoSid, r))
          => /\ Len(cart'[LEGACY]) > Len(cart[LEGACY])
             /\ SubSeq(cart'[LEGACY], 1, Len(cart[LEGACY])) = cart[LEGACY]
       /\ \A c \in CallSids :
             (/\ last'.op = "get_cart"
              /\ last'.snap_of = c
              /\ GetCart(c))
             => IF c = NoSid
                THEN last'.ret.items = cart[LEGACY]
                ELSE \A i \in 1..Len(last'.ret.items) :
                        \A j \in 1..Len(cart[LEGACY]) :
                           last'.ret.items[i] # cart[LEGACY][j]]_vars

\* get_cart without a call_sid returned the item an earlier add without a
\* call_sid put into the legacy cart, while call-1 holds a cart of its own
C26_Witness ==
    /\ last.op = "get_cart"
    /\ last.snap_of = NoSid
    /\ last.ret.items = cart[LEGACY]
    /\ Len(cart[LEGACY]) = 1
    /\ cart["call-1"] # <<>>
    /\ cart["call-1"][1] # cart[LEGACY][1]

\* the list checkout_order stored as the items of the order of task t
Snapshot(t) == orderHeap[loc[t].co_order].items

\* the cart of task t's checkout is no longer what the checkout saw
ChangedSince(t) ==
    \/ cart[loc[t].sid] # Snapshot(t)
    \/ CartView(loc[t].sid) # loc[t].before

C29_CommittedWithinLimit ==
    [][\A t \in Tasks, s \in StoreKeys :
          (/\ loc[t].pc = "fin_lock"
           /\ loc[t].sid = s
           /\ loc[t].order_no \in DOMAIN pending[s]
           /\ orderHeap[pending[s][loc[t].order_no]].phone # None
           /\ \E import_ok \in BOOLEAN : FinalizeLocked(t, import_ok))
          => loc[t].active_orders
                + SumQty(Deref(heap',
                               orderHeap'[orders'[s][loc[t].order_no]].items))
                <= MAX_ORDERS_PER_PHONE]_vars

\* C30: while a finalize_order is at its `await asyncio.to_thread(...)` the
\* lock of its session is free, and as long as calls are made a get_cart and
\* an add_to_cart on that session can take the lock and return
C30_PersistOutsideLock ==
    \A t \in Tasks :
       loc[t].pc = "persist"
       => /\ lock[loc[t].sid] = NoTask
          /\ nops < MaxOps
             => /\ ENABLED GetCart(loc[t].call_sid)
                /\ ENABLED AddToCart(loc[t].call_sid, WarmRequest)

\* an add_to_cart on call-1 returned while the finalize of call-1's checkout
\* was waiting for the persist call
C30_Witness ==
    /\ loc["t1"].pc = "persist"
    /\ loc["t1"].sid = "call-1"
    /\ last.op = "add_to_cart"
    /\ last.done
    /\ Ok(last.ret)
    /\ held = "call-1"
    /\ Len(cart["call-1"]) = 1

\* the next step of the call task t is in: the event loop runs every task
\* that is ready, and asyncio.Lock wakes its waiters in turn
Continue(t) ==
    \/ \E phone \in PhoneInputs, address \in AddressInputs,
          stored \in StoredInputs, n \in DrawInputs :
          CheckoutLocked(t, phone, address, stored, n)
    \/ \E import_ok \in BOOLEAN : FinalizeLocked(t, import_ok)
    \/ \E thread_fails \in BOOLEAN, store_fails \in BOOLEAN :
          PersistDone(t, thread_fails, store_fails)

\* the calls that contend for the session locks; arguments that decide no
\* return path and no lock are fixed
LiveNext ==
    \/ \E c \in CallSids, item \in NoItemInputs : AddNoItem(c, item)
    \/ \E c \in CallSids : AddToCart(c, WarmRequest)
    \/ \E c \in CallSids, i \in IndexInputs : RemoveFromCart(c, i)
    \/ \E c \in CallSids, i \in IndexInputs :
          ModifyCartItem(c, i, [flavor |-> Coke, toppings |-> NoneList,
                                size |-> Large, quantity |-> 2,
                                addons |-> NoneList])
    \/ \E c \in CallSids, i \in SsqIndexInputs : SetSizeQuantity(c, i, WarmAdjust)
    \/ \E c \in CallSids : GetCart(c)
    \/ SnapshotListMutate
    \/ SnapshotItemMutate
    \/ \E c \in CallSids, ot \in OrderTypeInputs : SaveOrderType(c, ot)
    \/ \E c \in CallSids : GetOrderType(c)
    \/ \E t \in Tasks, c \in CallSids, ot \in OrderTypeInputs :
          CheckoutStart(t, c, ot)
    \/ \E t \in Tasks, phone \in PhoneInputs, n \in DrawInputs :
          CheckoutLocked(t, phone, None, MaxStored, n)
    \/ \E t \in Tasks, import_ok \in BOOLEAN : FinalizeLocked(t, import_ok)
    \/ \E t \in Tasks, c \in CallSids, o \in OrderNoInputs, import_ok \in BOOLEAN :
          FinalizeCall(t, c, o, import_ok)
    \/ \E t \in Tasks, thread_fails \in BOOLEAN :
          PersistDone(t, thread_fails, FALSE)
    \/ \E c \in CallSids, o \in OrderNoInputs : DiscardPendingOrder(c, o)

\* the system under the scheduling of the asyncio event loop
LiveSpec ==
    /\ Init
    /\ [][LiveNext]_vars
    /\ \A t \in Tasks : WF_vars(Continue(t))

\* C31: between the steps of the calls every session's lock is free (each
\* call takes one lock at a time and leaves its `async with` block on every
\* return path), and every checkout or finalize that has started returns
C31_CallsReturn ==
    /\ [](\A s \in StoreKeys : lock[s] = NoTask)
    /\ \A t \in Tasks : (loc[t].pc # "idle") ~> (loc[t].pc = "idle")

\* two checkouts of call-1 are under way at once: one waits for the persist
\* call, the other has saved its order type and not yet taken the cart lock
C31_Witness ==
    /\ loc["t1"].pc = "persist"
    /\ loc["t2"].pc = "co_lock"
    /\ loc["t1"].sid = "call-1"
    /\ loc["t2"].sid = "call-1"
    /\ \A s \in StoreKeys : lock[s] = NoTask

\* index is below 0 or at or above the length of the cart
OutOfRange(index, CART) == index < 0 \/ index >= Len(CART)

\* the call returned the rejection "Index out of range." and no cart entry
\* and no item changed
RangeRejected ==
    /\ Rejected(last'.ret)
    /\ last'.ret.error = "Index out of range."
    /\ UNCHANGED <<cart, heap>>

\* a remove_from_cart step with call_sid c and index i
RemoveOn(c, i) ==
    /\ last'.op = "remove_from_cart"
    /\ held' = _get_store(c)
    /\ RemoveFromCart(c, i)

\* a modify_cart_item step with call_sid c and index i
ModifyOn(c, i) ==
    /\ last'.op = "modify_cart_item"
    /\ held' = _get_store(c)
    /\ \E r \in ModifyRequests : ModifyCartItem(c, i, r)

\* a set_size_quantity step with call_sid c and index i
SsqOn(c, i) ==
    /\ last'.op = "set_size_quantity"
    /\ held' = _get_store(c)
    /\ \E r \in SsqRequests : SetSizeQuantity(c, i, r)

\* the entry at index i left the cart of store s and was returned; the
\* other entries kept their order, and no item changed
RemovedAt(s, i) ==
    /\ Ok(last'.ret)
    /\ last'.ret.removed = cart[s][i + 1]
    /\ Len(cart'[s]) = Len(cart[s]) - 1
    /\ \A k \in 1..Len(cart'[s]) :
          cart'[s][k] = IF k <= i THEN cart[s][k] ELSE cart[s][k + 1]
    /\ \A x \in StoreKeys \ {s} : cart'[x] = cart[x]
    /\ heap' = heap

\* remove_from_cart and modify_cart_item turn an index out of range down and
\* a remove with a valid index takes exactly that entry
RemoveModifyRange ==
    \A c \in CallSids, i \in IndexInputs :
       /\ (OutOfRange(i, cart[_get_store(c)]) /\ RemoveOn(c, i)) => RangeRejected
       /\ (OutOfRange(i, cart[_get_store(c)]) /\ ModifyOn(c, i)) => RangeRejected
       /\ (~OutOfRange(i, cart[_get_store(c)]) /\ RemoveOn(c, i))
          => RemovedAt(_get_store(c), i)

\* C32 as stated: remove, modify and set_size_quantity with an index below 0
\* or at or above the cart length get "Index out of range." and change
\* nothing; a remove with a valid index takes exactly that entry
C32_IndexOutOfRange ==
    [][/\ RemoveModifyRange
       /\ \A c \in CallSids, i \in SsqIndexInputs \ {NoIndex} :
             (OutOfRange(i, cart[_get_store(c)]) /\ SsqOn(c, i))
             => RangeRejected]_vars

\* C32: remove and modify with an index below 0 or at or above the cart
\* length, and set_size_quantity with such an index on a cart that is not
\* empty, get "Index out of range." and change nothing; set_size_quantity
\* on an empty cart gets "Cart is empty." instead; a remove with a valid
\* index takes exactly that entry, returns it and keeps the others in order
C32_IndexChecked ==
    [][/\ RemoveModifyRange
       /\ \A c \in CallSids, i \in SsqIndexInputs \ {NoIndex} :
             (OutOfRange(i, cart[_get_store(c)]) /\ SsqOn(c, i))
             => IF cart[_get_store(c)] # <<>> THEN RangeRejected
                ELSE /\ Rejected(last'.ret)
                     /\ last'.ret.error = "Cart is empty."
                     /\ UNCHANGED <<cart, heap>>]_vars

\* the first of call-1's two entries was removed and returned
C32_Witness ==
    /\ last.op = "remove_from_cart"
    /\ last.done
    /\ Ok(last.ret)
    /\ last.ret.removed = 3
    /\ cart["call-1"] = <<4>>
    /\ last.ret.cart_count = 1

\* a set_size_quantity step with call_sid c, index i and request r
SsqStep(c, i, r) ==
    /\ last'.op = "set_size_quantity"
    /\ held' = _get_store(c)
    /\ SetSizeQuantity(c, i, r)

\* the item at position k of store s took the size and the quantity that r
\* gives, and every other entry of every cart is the item it was
OnlyUpdated(s, k, r) ==
    /\ Ok(last'.ret)
    /\ last'.ret.item = cart[s][k]
    /\ cart' = cart
    /\ heap'[cart[s][k]] =
          [heap[cart[s][k]] EXCEPT
              !.size = IF r.size # None THEN r.size ELSE @,
              !.quantity = IF r.quantity # NoQty THEN r.quantity ELSE @]
    /\ \A x \in StoreKeys :
          \A j \in 1..Len(cart[x]) :
             (x # s \/ j # k) => heap'[cart[x][j]] = heap[cart[x][j]]

\* C33: set_size_quantity without an index on a cart that is not empty
\* updates the last item and no other; with index 0 it updates the first
\* item and no other; on an empty cart it gets "Cart is empty." whatever the
\* index and changes nothing
C33_DefaultsToLast ==
    [][\A c \in CallSids, i \in SsqIndexInputs, r \in SsqRequests :
          SsqStep(c, i, r)
          => LET s == _get_store(c)
             IN  /\ (cart[s] # <<>> /\ i = NoIndex)
                    => OnlyUpdated(s, Len(cart[s]), r)
                 /\ (cart[s] # <<>> /\ i = 0) => OnlyUpdated(s, 1, r)
                 /\ cart[s] = <<>>
                    => /\ Rejected(last'.ret)
                       /\ last'.ret.error = "Cart is empty."
                       /\ UNCHANGED <<cart, heap>>]_vars

\* index 0 on call-1's cart of two: the first item took quantity 5, the last
\* one kept its own
C33_Witness ==
    /\ last.op = "set_size_quantity"
    /\ last.done
    /\ Ok(last.ret)
    /\ cart["call-1"] = <<3, 4>>
    /\ last.ret.item = 3
    /\ heap[3].quantity = 5
    /\ heap[4].quantity = 2

\* a modify_cart_item step with call_sid c, index i and request r
ModifyStep(c, i, r) ==
    /\ last'.op = "modify_cart_item"
    /\ held' = _get_store(c)
    /\ ModifyCartItem(c, i, r)

\* every entry of list l is an entry of list m
AllIn(l, m) == \A k \in 1..Len(l) : InList(l[k], m)

\* item dict new holds what request r provides, validated against the menu,
\* and what item dict old held for the fields r leaves out
HoldsProvided(new, old, r) ==
    /\ IF r.flavor # None THEN InList(new.item, menu.flavors)
       ELSE new.item = old.item
    /\ IF r.toppings # NoneList
       THEN /\ Len(new.toppings) = Len(ToppingsIn(r.toppings))
            /\ AllIn(new.toppings, menu.toppings)
       ELSE new.toppings = old.toppings
    /\ new.size = IF r.size # None THEN r.size ELSE old.size
    /\ new.quantity = IF r.quantity # NoQty THEN r.quantity ELSE old.quantity
    /\ r.addons # NoneList
       => /\ "addons" \in DOMAIN new
          /\ Len(new.addons) = Len(_ensure_list(r.addons))
          /\ AllIn(new.addons, menu.addons)
    /\ new.customer_name = old.customer_name
    /\ new.address = old.address

\* C34: a modify_cart_item that succeeds leaves the cart lists as they
\* were, gives the item at the index every field the call provides (flavor,
\* toppings, size, quantity, addons) and keeps its other fields, and leaves
\* every other cart item as it was
C34_ModifyFrame ==
    [][\A c \in CallSids, i \in IndexInputs, r \in ModifyRequests :
          (ModifyStep(c, i, r) /\ Ok(last'.ret))
          => LET s == _get_store(c)
             IN  /\ cart' = cart
                 /\ HoldsProvided(heap'[cart[s][i + 1]], heap[cart[s][i + 1]], r)
                 /\ \A x \in StoreKeys :
                       \A j \in 1..Len(cart[x]) :
                          (x # s \/ j # i + 1)
                          => heap'[cart[x][j]] = heap[cart[x][j]]]_vars

\* C35: a modify_cart_item that is rejected leaves the item at the index,
\* and every other item and cart, as it was
C35_RejectedUnchanged ==
    [][\A c \in CallSids, i \in IndexInputs, r \in ModifyRequests :
          (ModifyStep(c, i, r) /\ Rejected(last'.ret))
          => /\ cart' = cart
             /\ \A s \in StoreKeys : CartView(s)' = CartView(s)]_vars

\* C36: every item dict that an add_to_cart or a modify_cart_item step
\* creates or changes carries a flavor of the menu's flavors list and only
\* toppings of the menu's toppings list
C36_StoredNamesOnMenu ==
    [][last'.op \in {"add_to_cart", "modify_cart_item"}
       => \A k \in 1..Len(heap') :
             (k > Len(heap) \/ heap'[k] # heap[k])
             => /\ InList(heap'[k].item, menu.flavors)
                /\ AllIn(heap'[k].toppings, menu.toppings)]_vars

\* this step is the return of task t's checkout_order with ok:true
CheckoutReturnsOk(t) ==
    /\ loc[t].op = "checkout_order"
    /\ loc[t].pc # "idle"
    /\ loc'[t].pc = "idle"
    /\ last'.op = "checkout_order"
    /\ last'.done
    /\ Ok(last'.ret)

\* C38: when checkout_order returns ok:true, the Orders of its session hold
\* under the returned order number a committed order, and that order is the
\* order dict checkout returns
C38_ReturnedOrderCommitted ==
    [][\A t \in Tasks :
          CheckoutReturnsOk(t)
          => LET s  == loc[t].sid
                 no == last'.ret.order.order_number
             IN  /\ no \in DOMAIN orders'[s]
                 /\ orderHeap'[orders'[s][no]].committed
                 /\ orders'[s][no] = loc[t].co_order
                 /\ last'.ret.order = orderHeap'[orders'[s][no]]]_vars

\* C39: every session's cart holds at most MAX_PIZZAS entries
C39_EntriesBound == \A s \in StoreKeys : Len(cart[s]) <= MAX_PIZZAS

\* an add of three pizzas filled call-1's cart of two to the limit
C39_Witness ==
    /\ last.op = "add_to_cart"
    /\ last.done
    /\ Ok(last.ret)
    /\ last.ret.cart_count = MAX_PIZZAS
    /\ Len(cart["call-1"]) = MAX_PIZZAS
    /\ held = "call-1"

\* what an order_type argument says: pickup, delivery, or nothing when it
\* is omitted or names neither
Recognized(order_type) ==
    IF order_type = None THEN None
    ELSE LET w == Lower(Strip(order_type))
         IN  IF w = <<"p">> \/ StrIn(<<"p","i","c","k">>, w) THEN Pickup
             ELSE IF w = <<"d">> \/ StrIn(<<"d","e","l","i","v">>, w)
             THEN Delivery
             ELSE None

\* the first step of a checkout_order of task t with order_type ot
CheckoutBegins(t, ot) ==
    /\ last'.op = "checkout_order"
    /\ loc[t].pc = "idle"
    /\ loc'[t].pc = "co_lock"
    /\ \E c \in CallSids : CheckoutStart(t, c, ot)

\* a save_order_type step with order_type ot
SaveStep(ot) ==
    /\ last'.op = "save_order_type"
    /\ \E c \in CallSids : SaveOrderType(c, ot)

\* C40: the order a checkout creates, and the one it returns, records what
\* the checkout's own order_type argument says (pickup, delivery, or null
\* when it is omitted or not recognized), whatever the session's OrderType
\* slot holds; a save_order_type with a value that is not recognized leaves
\* every slot as it was; and every slot holds pickup, delivery or nothing
C40_OrderTypeOfCall ==
    [][/\ \A t \in Tasks, ot \in OrderTypeInputs :
             (last'.op = "checkout_order" /\ CheckoutBegins(t, ot))
             => loc'[t].order_type_value = Recognized(ot)
       /\ \A t \in Tasks :
             (loc[t].pc = "co_lock" /\ loc'[t].pc = "fin_lock")
             => /\ orderHeap'[loc'[t].co_order].order_type
                      = loc[t].order_type_value
                /\ orderType' = orderType
       /\ \A t \in Tasks :
             (last'.op = "checkout_order" /\ CheckoutReturnsOk(t))
             => last'.ret.order.order_type = loc[t].order_type_value
       /\ \A ot \in OrderTypeInputs :
             (last'.op = "save_order_type" /\ Recognized(ot) = None
              /\ SaveStep(ot))
             => orderType' = orderType
       /\ \A s \in StoreKeys :
             /\ orderType[s] \in {None, Pickup, Delivery}
             /\ orderType'[s] \in {None, Pickup, Delivery}]_vars

\* a checkout of call-2 without an order type created an order with none
\* while the slot of call-2 holds pickup from an earlier save_order_type
C40_Witness ==
    \E t \in Tasks :
       /\ loc[t].pc = "fin_lock"
       /\ loc[t].sid = "call-2"
       /\ loc[t].order_type_value = None
       /\ orderHeap[loc[t].co_order].order_type = None
       /\ orderType["call-2"] = Pickup

\* ------------------------------------------------------------------------
\* order_status called on its own
\* ------------------------------------------------------------------------
\* the phone of the stored order as a caller may say it, that phone as
\* stored, a text that is no phone, no phone
StatusPhones ==
    PhoneInputs \cup { <<"+","1","4","1","5","5","5","5","2","6","7","1">> }

\* the stored order's number, the numbers checkout can draw, a number no
\* order has, no number
StatusNumbers == { None, random_order_no(9) } \cup OrderNoInputs

\* what a caller of bl.order_status gets: the dict, or None
StatusReturn(result) ==
    IF "dict" \in DOMAIN result THEN result.dict ELSE [value |-> None]

\* order_status(phone, order_number, call_sid=call_sid): _get_store, then
\* the read of orders.json, which may raise, then the scan under the lock
OrderStatus(call_sid, phone, order_number, file_ok) ==
    LET x == <<"order_status", [phone |-> phone, order_number |-> order_number],
               call_sid>>
    IN  IF ~file_ok
        THEN /\ Budget
             /\ Unlocked
             /\ known' = Created(call_sid)
             /\ ReturnedTo("order_status", x, call_sid,
                           [raised |-> "FileNotFoundError"])
             /\ UNCHANGED <<settings, menu, lock, cart, heap, pending, orders,
                            orderHeap, orderType, loc>>
        ELSE /\ Section(call_sid)
             /\ ReturnedTo("order_status", x, call_sid,
                           StatusReturn(order_status(OrderList, phone,
                                                     order_number)))
             /\ UNCHANGED <<settings, menu, cart, heap, pending, orders,
                            orderHeap, orderType>>

StatusNext ==
    \E c \in CallSids, phone \in StatusPhones, order_number \in StatusNumbers,
       file_ok \in BOOLEAN :
       OrderStatus(c, phone, order_number, file_ok)

\* order_status called on the sessions of Init
StatusSpec == Init /\ [][StatusNext]_vars

\* the durable order list holds an order with this number / this phone
NumberStored(order_number) ==
    \E i \in 1..Len(OrderList) : OrderList[i].order_number = order_number

PhoneStored(phone) ==
    \E i \in 1..Len(OrderList) : OrderList[i].phone = normalize_phone(phone)

\* the result says found / says not found
SaysFound(r) == "found" \in DOMAIN r /\ r.found
SaysNotFound(r) == "found" \in DOMAIN r /\ ~r.found

\* C37: once the order list is read, order_status returns a found result
\* when the list holds an order with the given number, or, with only a phone
\* given, an order whose phone is the normalized form of the given phone; it
\* returns found = false when what is given matches no order and when
\* nothing is given; and it changes no session's cart, PendingOrders or
\* Orders
C37_OrderStatus ==
    [][\A c \in CallSids, phone \in StatusPhones, order_number \in StatusNumbers :
          (/\ last'.op = "order_status"
           /\ last'.call = <<"order_status",
                             [phone |-> phone, order_number |-> order_number], c>>
           /\ "raised" \notin DOMAIN last'.ret)
          => /\ (order_number # None /\ NumberStored(order_number))
                => SaysFound(last'.ret)
             /\ (order_number = None /\ phone # None /\ PhoneStored(phone))
                => SaysFound(last'.ret)
             /\ (/\ order_number = None \/ ~NumberStored(order_number)
                 /\ phone = None \/ ~PhoneStored(phone))
                => SaysNotFound(last'.ret)
             /\ \A s \in StoreKeys : SessionView(s)' = SessionView(s)]_vars

\* ------------------------------------------------------------------------
\* _match_with_aliases and normalize_phone called on their own
\* ------------------------------------------------------------------------
\* the names _match_with_aliases is called with, blank ones among them
ValueInputs ==
    { <<"P","A","N","E","E","R">>,
      <<"p","a","n","i","r">>,
      <<"x","y","z">>,
      <<"s","w","e","e","t"," ","c","o","r","n">>,
      <<"c","o","r","n">>,
      <<" ","F","a","r","m"," ">>,
      <<" "," ">>,
      <<>>,
      <<" ","\t">> }

\* the canonical lists and the alias tables it is called with
CanonicalInputs ==
    { <<>>,
      <<<<"p","a","n","e","e","r">>>>,
      <<<<"F","a","r","m">>, <<"S","w","e","e","t"," ","C","o","r","n">>>> }

AliasInputs ==
    { <<>>,
      << [canonical |-> <<"p","a","n","e","e","r">>,
        variants |-> {<<"p","a","n","i","r">>}] >>,
      << [canonical |-> <<"c","o","r","n">>,
        variants |-> {<<"c","o","r","n">>}],
         [canonical |-> <<"s","w","e","e","t"," ","c","o","r","n">>,
        variants |-> {<<"s","w","e","e","t"," ","c","o","r","n">>}] >>,
      TOPPING_ALIASES }

\* the strings normalize_phone is called with
PhoneStrings ==
    { <<"+","1"," ","4","1","5","-","5","5","5","-","2","6","7","1">>,
      <<"a","b","c">>,
      <<>>,
      <<"4","1","5","5","5","5","2">>,
      <<"4","1","5","5","5","5">>,
      <<"1","2","3","4","5","6","7","8","9","0","1","2","3","4","5","6">>,
      <<"+","1","2","3","4","5","6">>,
      <<" ","9","1","8","7","7","7","6","8","4","7","2","5"," ">>,
      <<"0","0","+","1","2","3","4","5","6","7">>,
      <<"+","1","2","3","4","5","6","7","8","9","0","1","2","3","4","5","6">>,
      <<"+","1","4","1","5","5","5","5","2","6","7","1">> }

\* a call of a pure function, its arguments taken and nothing returned yet
Called(o, args) == [NoLast EXCEPT !.op = o, !.ret = args]

PureInit ==
    /\ Fresh
    /\ pending = [s \in StoreKeys |-> EmptyMap]
    /\ loc = [t \in Tasks |-> IdleLoc]
    /\ held = NoLock
    /\ lock = [s \in StoreKeys |-> NoTask]
    /\ nops = 0
    /\ settings = JustCached(menu)
    /\ \/ \E v \in ValueInputs, l \in CanonicalInputs, a \in AliasInputs :
             last = Called("_match_with_aliases",
                           [value_norm |-> v, canonical_list |-> l,
                            aliases |-> a])
       \/ \E p \in PhoneStrings : last = Called("normalize_phone", [p |-> p])

\* _match_with_aliases(value_norm, canonical_list, aliases) returns
MatchWithAliases ==
    /\ last.op = "_match_with_aliases"
    /\ ~last.done
    /\ last' = [last EXCEPT
                  !.done = TRUE,
                  !.ret = [value_norm |-> last.ret.value_norm,
                           canonical_list |-> last.ret.canonical_list,
                           aliases |-> last.ret.aliases,
                           matched |-> _match_with_aliases(
                                           last.ret.value_norm,
                                           last.ret.canonical_list,
                                           last.ret.aliases)]]
    /\ UNCHANGED <<settings, menu, known, lock, cart, heap, pending, orders, orderHeap,
                   orderType, nops, loc, held>>

\* normalize_phone(p) returns
NormalizePhone ==
    /\ last.op = "normalize_phone"
    /\ ~last.done
    /\ last' = [last EXCEPT
                  !.done = TRUE,
                  !.ret = [p |-> last.ret.p, out |-> normalize_phone(last.ret.p)]]
    /\ UNCHANGED <<settings, menu, known, lock, cart, heap, pending, orders, orderHeap,
                   orderType, nops, loc, held>>

PureNext == MatchWithAliases \/ NormalizePhone

PureSpec == PureInit /\ [][PureNext]_vars

\* the canonical-list entries whose normalized name is k
Named(l, k) == {l[i] : i \in {j \in 1..Len(l) : Lower(Strip(l[j])) = k}}

\* what an alias entry stands for: the canonical-list entry of its key, or
\* the key itself
Display(l, e) ==
    IF Named(l, Lower(Strip(e.canonical))) # {}
    THEN Named(l, Lower(Strip(e.canonical)))
    ELSE {e.canonical}

\* rule 2: the entries whose key or variant is v
ExactAlias(v, l, a) ==
    UNION {Display(l, a[i]) :
              i \in {j \in 1..Len(a) :
                       \/ Lower(Strip(a[j].canonical)) = v
                       \/ \E x \in a[j].variants : Lower(Strip(x)) = v}}

\* rule 3: the entries with a variant that holds v or is held by v
SubstringAlias(v, l, a) ==
    UNION {Display(l, a[i]) :
              i \in {j \in 1..Len(a) :
                       \E x \in a[j].variants :
                          \/ StrIn(v, Lower(Strip(x)))
                          \/ StrIn(Lower(Strip(x)), v)}}

\* rule 4: the canonical names that hold v or are held by v
SubstringCanonical(v, l) ==
    {l[i] : i \in {j \in 1..Len(l) :
                     \/ StrIn(v, Lower(Strip(l[j])))
                     \/ StrIn(Lower(Strip(l[j])), v)}}

\* the matches of the first rule that fires
FirstRule(v, l, a) ==
    IF Named(l, v) # {} THEN Named(l, v)
    ELSE IF ExactAlias(v, l, a) # {} THEN ExactAlias(v, l, a)
    ELSE IF SubstringAlias(v, l, a) # {} THEN SubstringAlias(v, l, a)
    ELSE SubstringCanonical(v, l)

\* _match_with_aliases has returned
Matched == last.op = "_match_with_aliases" /\ last.done

\* C23: for an input that is not blank _match_with_aliases returns a match
\* of the first rule that fires among exact canonical name, exact alias key
\* or variant, substring of a variant, substring of a canonical name, in its
\* display casing, and None exactly when no rule fires
C23_FirstRuleWins ==
    (Matched /\ Strip(last.ret.value_norm) # <<>>)
    => LET r == FirstRule(Lower(Strip(last.ret.value_norm)),
                          last.ret.canonical_list, last.ret.aliases)
       IN  IF r = {} THEN last.ret.matched = None
           ELSE last.ret.matched \in r

\* C24: _match_with_aliases returns None for the empty string and for an
\* input of whitespace only, whatever the canonical list and the alias table
C24_BlankNotFound ==
    (Matched /\ Strip(last.ret.value_norm) = <<>>)
    => last.ret.matched = None

\* normalize_phone has returned
Normalized == last.op = "normalize_phone" /\ last.done

\* C27: normalize_phone returns None or "+" followed by 7 to 15 digits, the
\* digits of its input in their order; it returns None for an input without
\* a digit, and it returns its own output unchanged
C27_NormalizePhone ==
    Normalized
    => LET p   == last.ret.p
           out == last.ret.out
       IN  /\ out # None
              => /\ out[1] = "+"
                 /\ Len(out) - 1 \in 7..15
                 /\ \A i \in 2..Len(out) : IsDigit(out[i])
                 /\ Tail(out) = SelectSeq(p, IsDigit)
                 /\ normalize_phone(out) = out
           /\ SelectSeq(p, IsDigit) = <<>> => out = None

\* "+1 415-555-2671" came back as "+14155552671"
C27_Witness ==
    /\ Normalized
    /\ last.ret.p = <<"+","1"," ","4","1","5","-","5","5","5","-","2","6","7","1">>
    /\ last.ret.out = <<"+","1","4","1","5","5","5","5","2","6","7","1">>

\* ------------------------------------------------------------------------
\* settings.get_menu
\* ------------------------------------------------------------------------
\* a process that has not called get_menu yet, with no session
MenuInit ==
    /\ menu = _empty_menu
    /\ known = {}
    /\ cart = [s \in StoreKeys |-> <<>>]
    /\ heap = <<>>
    /\ orders = [s \in StoreKeys |-> EmptyMap]
    /\ orderHeap = <<>>
    /\ orderType = [s \in StoreKeys |-> None]
    /\ AtRest
    /\ lock = [s \in StoreKeys |-> NoTask]
    /\ nops = 0
    /\ \E url \in BOOLEAN : settings = Imported(url)

\* time passes
Tick ==
    /\ settings.now < Epoch + MaxTicks * TickSeconds
    /\ settings' = [settings EXCEPT !.now = @ + TickSeconds]
    /\ UNCHANGED <<menu, known, lock, cart, heap, pending, orders, orderHeap,
                   orderType, nops, loc, held, last>>

\* the cache is filled, not to be refreshed and younger than the TTL
CacheFresh(force_refresh) ==
    /\ settings.cached_menu # NoMenu
    /\ ~force_refresh
    /\ settings.cached_menu_ts # 0
    /\ settings.now - settings.cached_menu_ts < _MENU_CACHE_TTL

\* get_menu(force_refresh), and async_get_menu alike, with the outcome of
\* the fetch it may make
GetMenu(force_refresh, remote) ==
    /\ LET m == IF CacheFresh(force_refresh) THEN settings.cached_menu
                ELSE IF ~settings.url THEN _empty_menu
                ELSE IF "dict" \in DOMAIN remote THEN remote.dict
                ELSE _empty_menu
       IN  /\ settings' =
                 IF CacheFresh(force_refresh) THEN settings
                 ELSE [settings EXCEPT
                         !.cached_menu = m,
                         !.cached_menu_ts = settings.now,
                         !.fetched = IF settings.url /\ "dict" \in DOMAIN remote
                                     THEN m ELSE @]
           /\ menu' = m
           /\ Returned("get_menu", NoSid, [menu |-> m])
    /\ held' = NoLock
    /\ UNCHANGED <<known, lock, cart, heap, pending, orders, orderHeap,
                   orderType, nops, loc>>

MenuNext ==
    \/ Tick
    \/ \E force_refresh \in BOOLEAN, remote \in FetchInputs :
          GetMenu(force_refresh, remote)

MenuSpec == MenuInit /\ [][MenuNext]_vars

\* C25: once a fetch has succeeded, get_menu returns the menu of the last
\* successful fetch, also when a later fetch fails; it returns the empty
\* menu only while no fetch has succeeded
C25_LastGoodMenu ==
    (last.op = "get_menu" /\ last.done)
    => /\ settings.fetched # NoMenu => last.ret.menu = settings.fetched
       /\ last.ret.menu = _empty_menu => settings.fetched = NoMenu
====
